---------------------------- MODULE Spec2Model ----------------------------
(***************************************************************************)
(* Model of the Asgardeo resource-manager agent.                           *)
(*                                                                         *)
(* The repository holds two programs and one unused helper:                *)
(*   - main.py / agent.py / context.py / tools/app_mgt_tools.py / auth.py: *)
(*     the /chat server, whose tools read the credential and the tenant    *)
(*     from two context variables;                                         *)
(*   - main_agent.py / tools/api_execution_tool.py: the ReAct command-line *)
(*     agent, whose executor reads a token from the configuration;         *)
(*   - auth.decode_api_key: a pure function (no caller in the repository). *)
(*                                                                         *)
(* Strings that the code inspects character by character are sequences of  *)
(* one-character strings; bytes and code points are integers.              *)
(***************************************************************************)
EXTENDS Integers, Sequences, FiniteSets, TLC

(***************************************************************************)
(* Bounds of the model.                                                    *)
(***************************************************************************)
\* longest raw (not necessarily well-formed) api-key header given to decode_api_key
MaxRawLen == 5
\* longest client id / client secret of a well-formed credential
MaxIdLen == 2
MaxSecretLen == 2

(***************************************************************************)
(* Text helpers.                                                           *)
(***************************************************************************)
\* all sequences over S of length 0..n
RECURSIVE SeqsUpTo(_, _)
SeqsUpTo(S, n) ==
    IF n = 0 THEN {<<>>}
    ELSE LET shorter == SeqsUpTo(S, n - 1)
         IN  shorter \cup {Append(s, x) : s \in {t \in shorter : Len(t) = n - 1}, x \in S}

\* the base64 alphabet of binascii (table_a2b_base64): value v is B64Alphabet[v + 1]
B64Alphabet ==
    << "A","B","C","D","E","F","G","H","I","J","K","L","M","N","O","P",
       "Q","R","S","T","U","V","W","X","Y","Z","a","b","c","d","e","f",
       "g","h","i","j","k","l","m","n","o","p","q","r","s","t","u","v",
       "w","x","y","z","0","1","2","3","4","5","6","7","8","9","+","/" >>

B64Chars == {B64Alphabet[i] : i \in 1..64}

B64Value(ch) == (CHOOSE i \in 1..64 : B64Alphabet[i] = ch) - 1

\* characters of a header that are not ASCII (str.encode('ascii') fails on them)
NonAsciiChars == {"é"}

\* str.lower() on one character
Lower(ch) ==
    IF ch \in B64Chars /\ B64Value(ch) < 26 THEN B64Alphabet[B64Value(ch) + 27] ELSE ch

Colon == 58


(***************************************************************************)
(* auth.decode_api_key (src/auth.py 8-37) and the library calls it makes.  *)
(***************************************************************************)
\* binascii.a2b_base64 in its default, non-strict mode, as base64.b64decode
\* calls it: characters outside the alphabet are skipped, a pad sequence that
\* completes a quad ends the parse, leftover data characters are an error.
RECURSIVE A2bBase64(_, _, _, _, _, _)
A2bBase64(s, i, quad_pos, leftchar, pads, out) ==
    IF i > Len(s)
    THEN IF quad_pos # 0
         THEN [ok |-> FALSE, error |-> "binascii.Error", bytes |-> <<>>]
         ELSE [ok |-> TRUE, error |-> "", bytes |-> out]
    ELSE LET ch == s[i] IN
         IF ch = "="
         THEN IF quad_pos >= 2 /\ quad_pos + pads + 1 >= 4
              THEN [ok |-> TRUE, error |-> "", bytes |-> out]
              ELSE A2bBase64(s, i + 1, quad_pos, leftchar,
                             IF quad_pos >= 2 THEN pads + 1 ELSE pads, out)
         ELSE IF ch \notin B64Chars
         THEN A2bBase64(s, i + 1, quad_pos, leftchar, pads, out)
         ELSE LET v == B64Value(ch) IN
              CASE quad_pos = 0 -> A2bBase64(s, i + 1, 1, v, 0, out)
                [] quad_pos = 1 -> A2bBase64(s, i + 1, 2, v % 16, 0,
                                             Append(out, (leftchar * 4 + (v \div 16)) % 256))
                [] quad_pos = 2 -> A2bBase64(s, i + 1, 3, v % 4, 0,
                                             Append(out, (leftchar * 16 + (v \div 4)) % 256))
                [] quad_pos = 3 -> A2bBase64(s, i + 1, 0, 0, 0,
                                             Append(out, (leftchar * 64 + v) % 256))

\* base64.b64decode(s) for a str argument: ASCII-encode, then a2b_base64
b64decode(s) ==
    IF \E i \in 1..Len(s) : s[i] \in NonAsciiChars
    THEN [ok |-> FALSE, error |-> "ValueError", bytes |-> <<>>]
    ELSE A2bBase64(s, 1, 0, 0, 0, <<>>)

IsCont(b) == b >= 128 /\ b <= 191

\* bytes.decode('utf-8'), strict: the code points, or UnicodeDecodeError
RECURSIVE Utf8Decode(_, _, _)
Utf8Decode(b, i, out) ==
    LET n == Len(b)
        bad == [ok |-> FALSE, text |-> <<>>]
        c1 == IF i + 1 <= n THEN b[i + 1] ELSE 0
        c2 == IF i + 2 <= n THEN b[i + 2] ELSE 0
        c3 == IF i + 3 <= n THEN b[i + 3] ELSE 0
    IN  IF i > n THEN [ok |-> TRUE, text |-> out]
        ELSE LET b0 == b[i] IN
             IF b0 < 128 THEN Utf8Decode(b, i + 1, Append(out, b0))
             ELSE IF b0 >= 194 /\ b0 <= 223
             THEN IF IsCont(c1)
                  THEN Utf8Decode(b, i + 2, Append(out, (b0 - 192) * 64 + (c1 - 128)))
                  ELSE bad
             ELSE IF b0 >= 224 /\ b0 <= 239
             THEN IF /\ IsCont(c1) /\ IsCont(c2)
                     /\ (b0 = 224 => c1 >= 160)
                     /\ (b0 = 237 => c1 <= 159)
                  THEN Utf8Decode(b, i + 3,
                           Append(out, (b0 - 224) * 4096 + (c1 - 128) * 64 + (c2 - 128)))
                  ELSE bad
             ELSE IF b0 >= 240 /\ b0 <= 244
             THEN IF /\ IsCont(c1) /\ IsCont(c2) /\ IsCont(c3)
                     /\ (b0 = 240 => c1 >= 144)
                     /\ (b0 = 244 => c1 <= 143)
                  THEN Utf8Decode(b, i + 4,
                           Append(out, (b0 - 240) * 262144 + (c1 - 128) * 4096
                                       + (c2 - 128) * 64 + (c3 - 128)))
                  ELSE bad
             ELSE bad

\* index of the first ':' of a text, 0 when there is none
FirstColon(text) ==
    IF \E i \in 1..Len(text) : text[i] = Colon
    THEN CHOOSE i \in 1..Len(text) : text[i] = Colon /\ \A j \in 1..(i - 1) : text[j] # Colon
    ELSE 0

\* variant: str.rsplit(':', 1), the split on the last ':'
SplitLastColon(text) ==
    IF \E i \in 1..Len(text) : text[i] = Colon
    THEN LET k == CHOOSE i \in 1..Len(text) :
                     text[i] = Colon /\ \A j \in (i + 1)..Len(text) : text[j] # Colon
         IN  <<SubSeq(text, 1, k - 1), SubSeq(text, k + 1, Len(text))>>
    ELSE <<text>>

\* str.split(':', 1)
SplitFirstColon(text) ==
    LET k == FirstColon(text)
    IN  IF k = 0 THEN <<text>>
        ELSE <<SubSeq(text, 1, k - 1), SubSeq(text, k + 1, Len(text))>>

BasicPrefix == <<"b", "a", "s", "i", "c", " ">>

\* api_key_header.lower().startswith('basic ')
StartsWithBasic(h) ==
    Len(h) >= 6 /\ [i \in 1..6 |-> Lower(h[i])] = BasicPrefix

\* api_key_header[6:] when the prefix is there
StripBasic(h) == IF StartsWithBasic(h) THEN SubSeq(h, 7, Len(h)) ELSE h

Rejected(why) ==
    [ok |-> FALSE, status |-> 401, error |-> why, client_id |-> <<>>, client_secret |-> <<>>]

\* no credential, and the result before decode_api_key has run
NoCredential == [encoded |-> FALSE, prefix |-> <<>>, id |-> <<>>, secret |-> <<>>]
NotDecoded == Rejected("pending")

\* what decode_api_key does with the two parts once the text is decoded
PartsResult(parts) ==
    IF Len(parts) = 2
    THEN IF parts[1] # <<>> /\ parts[2] # <<>>
         THEN [ok |-> TRUE, status |-> 200, error |-> "",
               client_id |-> parts[1], client_secret |-> parts[2]]
         ELSE Rejected("ValueError: empty half")
    ELSE Rejected("ValueError: no colon")

decode_api_key(api_key_header) ==
    IF api_key_header = <<>> THEN Rejected("header missing")
    ELSE LET raw == b64decode(StripBasic(api_key_header)) IN
         IF ~raw.ok THEN Rejected(raw.error)
         ELSE LET txt == Utf8Decode(raw.bytes, 1, <<>>) IN
              IF ~txt.ok THEN Rejected("UnicodeDecodeError")
              ELSE PartsResult(SplitFirstColon(txt.text))


(***************************************************************************)
(* The /chat server: state.                                                *)
(***************************************************************************)
\* most tool invocations of one agent run that the model follows
MaxIterations == 2
\* longest chat of a /chat payload, and largest configured history window
MaxChatLen == 2
MaxKeep == 2

\* the inbound calls; each is served in a task of its own
Calls == {"A", "B"}

VARIABLES
    program,    \* which entry point runs: "main" (the /chat server), "main_agent" or "decode"
    live,       \* the calls that arrive in this run
    config,     \* the configuration module as the process loaded it
    pc,         \* pc[c]: where the task serving call c stands
    req,        \* req[c]: the request of call c: api-key header, payload
    cvKey,      \* cvKey[c]: request_api_key_b64_cv in the context of c's task
    cvOrg,      \* cvOrg[c]: request_org_name_cv in the context of c's task
    tok,        \* tok[c]: the two Token objects returned by ContextVar.set
    resets,     \* resets[c]: how often each variable was reset by call c
    agentIn,    \* agentIn[c]: user_query and chat_history handed to the agent runner
    iter,       \* iter[c]: tool invocations made so far by the agent run of call c
    inv,        \* inv[c]: the running (or last finished) tool invocation of call c
    serial,     \* serial[c]: token exchanges answered so far for call c
    resp,       \* resp[c]: the HTTP response of call c
    probe,      \* probe[c]: result of a context read made outside the set..reset window
    ex,         \* the executor invocation of the command-line agent
    run,        \* the run of agent_executor.invoke in the command-line agent
    asst,       \* the spec-assistant invocation of the command-line agent
    header,     \* the argument of decode_api_key
    cred,       \* the credential the header was encoded from, if it was
    decoded,    \* the result of decode_api_key
    load        \* the call of load_spec_from_url: the document served and the result

serverVars == <<pc, req, cvKey, cvOrg, tok, resets, agentIn, iter, inv, serial, resp, probe>>
codecVars == <<header, cred, decoded>>
vars == <<program, live, config, pc, req, cvKey, cvOrg, tok, resets, agentIn, iter, inv, serial,
          resp, probe, ex, run, asst, codecVars, load>>

\* ContextVar(..., default=None): unset values
KeyUnset == [isset |-> FALSE, value |-> <<>>]
OrgUnset == [isset |-> FALSE, value |-> ""]

\* the credential blobs and tenants the calls come with
KeyOf(c) == IF c = "A" THEN <<"Y", "T", "p", "i">> ELSE <<"Y", "j", "p", "h">>
JunkKey == <<"Y", "T", "=", "=">>
BlankKey == <<" ">>
OrgOf(c) == IF c = "A" THEN "orgA" ELSE "orgB"

NoHeader == [present |-> FALSE, value |-> <<>>]
HeadersOf(c) ==
    {NoHeader} \cup {[present |-> TRUE, value |-> v] : v \in {BlankKey, KeyOf(c), JunkKey}}

Roles == {"user", "agent"}
\* a chat is the sequence of its roles; the content of message i is i (schemas.ChatRequest:
\* at least one message, roles restricted to user|agent)
Chats == SeqsUpTo(Roles, MaxChatLen) \ {<<>>}

\* the requests a call may carry; runs with two calls in flight draw them from
\* a smaller set (well-formed credential and tenant, one-message chats)
RequestsOf(c) ==
    IF Cardinality(live) = 1
    THEN [api_key : HeadersOf(c), organization_name : {"", OrgOf(c)}, chat : Chats]
    ELSE [api_key : {[present |-> TRUE, value |-> KeyOf(c)]},
          organization_name : {OrgOf(c)},
          chat : {<<"user">>, <<"agent">>}]

NoRequest == [api_key |-> NoHeader, organization_name |-> "", chat |-> <<>>]

\* the configuration module. src/config.py defines no MAX_CHAT_HISTORY, which
\* main.py reads (has_MAX_CHAT_HISTORY = FALSE); a deployment that serves chats
\* supplies it. api_token is ASGARDEO_CONFIG["api_token"], unset ("") or set.
Configs ==
    [has_MAX_CHAT_HISTORY : {FALSE}, MAX_CHAT_HISTORY : {0}, api_token : {"", "cfgtoken"}]
    \cup [has_MAX_CHAT_HISTORY : {TRUE}, MAX_CHAT_HISTORY : 1..MaxKeep,
          api_token : {"", "cfgtoken"}]

\* config.ASGARDEO_BASE_URL.rstrip('/') and ASGARDEO_CONFIG["base_url"]
BaseUrl == "https://base"

(***************************************************************************)
(* context.py: the two context variables.  A ContextVar holds one value    *)
(* per context, and every task runs in a context of its own.               *)
(***************************************************************************)
\* variant: one process-wide slot, the value set by a call is seen by every task
CvSet_ProcessWide(cv, c, v) == [d \in Calls |-> [isset |-> TRUE, value |-> v]]

\* ContextVar.set(value) run in the task of call c; the Token keeps the old value
CvSet(cv, c, v) == [cv EXCEPT ![c] = [isset |-> TRUE, value |-> v]]

\* ContextVar.reset(token) run in the task of call c
CvReset(cv, c, token) == [cv EXCEPT ![c] = token]

\* variant: the None check is missing, the default is returned
get_request_api_key_NoCheck(c) ==
    [raised |-> FALSE, exc |-> "", value |-> cvKey[c].value]

\* get_request_api_key(), called in the task of call c
get_request_api_key(c) ==
    IF ~cvKey[c].isset
    THEN [raised |-> TRUE, exc |-> "RuntimeError", value |-> <<>>]
    ELSE [raised |-> FALSE, exc |-> "", value |-> cvKey[c].value]

\* get_request_org_name(), called in the task of call c
get_request_org_name(c) ==
    IF ~cvOrg[c].isset
    THEN [raised |-> TRUE, exc |-> "RuntimeError", value |-> ""]
    ELSE [raised |-> FALSE, exc |-> "", value |-> cvOrg[c].value]

(***************************************************************************)
(* auth.get_asgardeo_access_token.                                         *)
(***************************************************************************)
\* access tokens: the one the token endpoint mints for its n-th answer to a
\* tenant, and the falsy values ("" or null)
Tok(org, n) == [org |-> org, n |-> n]
EmptyTok == [org |-> "", n |-> 0]

NoHttp == [net |-> "none", status |-> 0, body |-> "", has_token |-> FALSE,
           access_token |-> EmptyTok]
Http(st, body) == [NoHttp EXCEPT !.net = "ok", !.status = st, !.body = body]
NetFail == [NoHttp EXCEPT !.net = "fail"]

\* what the token endpoint may answer to the n-th exchange for a tenant; runs
\* with two calls in flight draw the answers from a smaller set
TokenResponses(org, n) ==
    { [Http(200, "obj") EXCEPT !.has_token = TRUE, !.access_token = Tok(org, n)],
      Http(401, "obj") }
    \cup IF Cardinality(live) = 1
         THEN { [Http(200, "obj") EXCEPT !.has_token = TRUE],
                Http(200, "obj"), Http(200, "scalar"), Http(200, "notjson"),
                Http(500, "notjson"), NetFail }
         ELSE {}

NoRequestSent == [method |-> "", url |-> <<>>, authorization |-> <<>>,
                  data |-> "", params |-> ""]

\* variant: the token endpoint is built without the tenant
TokenRequest_NoTenant(api_key_b64, organization_name) ==
    [method |-> "POST",
     url |-> <<BaseUrl, "oauth2", "token">>,
     authorization |-> <<"Basic", api_key_b64>>,
     data |-> "grant_type=client_credentials",
     params |-> "scope=SYSTEM"]

\* the one request get_asgardeo_access_token builds (src/auth.py 61-93)
TokenRequest(api_key_b64, organization_name) ==
    [method |-> "POST",
     url |-> <<BaseUrl, organization_name, "oauth2", "token">>,
     authorization |-> <<"Basic", api_key_b64>>,
     data |-> "grant_type=client_credentials",
     params |-> "scope=SYSTEM"]

\* Response.raise_for_status()
IsHttpError(st) == st >= 400 /\ st < 600

\* variant: the 'if not access_token' check is missing
TokenTryRaises_NoTokenCheck(r) ==
    IF r.net = "fail" THEN "ConnectionError"
    ELSE IF IsHttpError(r.status) THEN "HTTPError"
    ELSE IF r.body = "notjson" THEN "JSONDecodeError"
    ELSE IF r.body # "obj" THEN "AttributeError"
    ELSE ""

\* the exception raised inside the try block, "" when the token is returned
TokenTryRaises(r) ==
    IF r.net = "fail" THEN "ConnectionError"
    ELSE IF IsHttpError(r.status) THEN "HTTPError"
    ELSE IF r.body = "notjson" THEN "JSONDecodeError"
    ELSE IF r.body # "obj" THEN "AttributeError"
    ELSE IF ~r.has_token \/ r.access_token = EmptyTok THEN "ValueError"
    ELSE ""

\* isinstance(e, requests.exceptions.RequestException)
IsRequestException(e) == e \in {"ConnectionError", "HTTPError", "JSONDecodeError", "Timeout"}
\* isinstance(e, ValueError): requests' JSONDecodeError derives from json's
IsValueError(e) == e \in {"ValueError", "JSONDecodeError"}

NoOutcome == [returned |-> FALSE, access_token |-> EmptyTok, exc |-> "",
              reason |-> "", status_code |-> 0]

\* result of get_asgardeo_access_token given the endpoint's answer r
TokenOutcome(r) ==
    LET e == TokenTryRaises(r) IN
    IF e = ""
    THEN [returned |-> TRUE, access_token |-> r.access_token, exc |-> "",
          reason |-> "", status_code |-> 0]
    ELSE IF IsRequestException(e)
    THEN [returned |-> FALSE, access_token |-> EmptyTok, exc |-> "ValueError",
          reason |-> "Failed to obtain Asgardeo token",
          status_code |-> IF e = "HTTPError" THEN r.status ELSE 0]
    ELSE [returned |-> FALSE, access_token |-> EmptyTok, exc |-> "ValueError",
          reason |-> IF e = "ValueError" THEN "Access token not found"
                     ELSE "unexpected error",
          status_code |-> 0]

(***************************************************************************)
(* tools/app_mgt_tools.py: the four context tools.                         *)
(***************************************************************************)
\* tools.get_context_tools()
Tools == {"list_asgardeo_applications", "delete_asgardeo_application",
          "create_asgardeo_application", "search_asgardeo_applications"}

\* the argument the model passes: none for list; an empty or a non-empty string
ToolArgs(tool) == IF tool = "list_asgardeo_applications" THEN {""} ELSE {"", "x"}

\* response.text of each kind of body, as a sequence of tokens
BodyText(body) ==
    CASE body = "obj" -> <<"{", "\"id\"", ":", "\"abc123\"", "}">>
      [] body = "empty_obj" -> <<"{", "}">>
      [] body = "list" -> <<"[", "1", "]">>
      [] body = "scalar" -> <<"1">>
      [] body = "notjson" -> <<"<html>">>
      [] body = "err_desc_msg" ->
            <<"{", "\"message\"", ":", "\"m\"", ",", "\"description\"", ":", "\"d\"", "}">>
      [] body = "err_empty_desc" ->
            <<"{", "\"description\"", ":", "\"\"", ",", "\"message\"", ":", "\"m\"", "}">>
      [] body = "err_detail" -> <<"{", "\"detail\"", ":", "\"t\"", "}">>
      [] body = "long_html" -> <<"<html>", "<pad194>", "<more>">>
      [] OTHER -> <<>>

JsonStrings == {"\"abc123\"", "\"id\"", "\"description\"", "\"message\"", "\"detail\"",
                "\"d\"", "\"m\"", "\"t\"", "\"\""}
JsonScalars == {"1"} \cup JsonStrings
NotParsed == [ok |-> FALSE, value |-> <<>>]
Parsed(value) == [ok |-> TRUE, value |-> value]

\* response.json() / json.loads on the texts of the model: a scalar, an object
\* of at most two members, an array of at most one element; anything else is
\* a JSONDecodeError
JsonLoads(text) ==
    IF Len(text) = 1 /\ text[1] \in JsonScalars THEN Parsed(<<"scalar", text[1]>>)
    ELSE IF text = <<"{", "}">> THEN Parsed(<<"object">>)
    ELSE IF Len(text) = 5 /\ text[1] = "{" /\ text[2] \in JsonStrings /\ text[3] = ":"
            /\ text[4] \in JsonScalars /\ text[5] = "}"
    THEN Parsed(<<"object", text[2], text[4]>>)
    ELSE IF Len(text) = 9 /\ text[1] = "{" /\ text[2] \in JsonStrings /\ text[3] = ":"
            /\ text[4] \in JsonScalars /\ text[5] = "," /\ text[6] \in JsonStrings
            /\ text[7] = ":" /\ text[8] \in JsonScalars /\ text[9] = "}"
            /\ text[2] # text[6]
    THEN Parsed(<<"object", text[2], text[4], text[6], text[8]>>)
    ELSE IF text = <<"[", "]">> THEN Parsed(<<"array">>)
    ELSE IF Len(text) = 3 /\ text[1] = "[" /\ text[2] \in JsonScalars /\ text[3] = "]"
    THEN Parsed(<<"array", text[2]>>)
    ELSE NotParsed

\* json.dumps(value, indent=2)
JsonDumpsIndent2(value) ==
    CASE value[1] = "scalar" -> <<value[2]>>
      [] value[1] = "object" ->
            IF Len(value) = 1 THEN <<"{", "}">>
            ELSE IF Len(value) = 3
            THEN <<"{", "\n  ", value[2], ": ", value[3], "\n", "}">>
            ELSE <<"{", "\n  ", value[2], ": ", value[3], ",",
                   "\n  ", value[4], ": ", value[5], "\n", "}">>
      [] value[1] = "array" ->
            IF Len(value) = 1 THEN <<"[", "]">>
            ELSE <<"[", "\n  ", value[2], "\n", "]">>

\* the bodies response.json() cannot parse
NotJsonBodies == {b \in {"obj", "empty_obj", "list", "scalar", "notjson", "empty",
                         "err_desc_msg", "err_empty_desc", "err_detail", "long_html"} :
                     ~JsonLoads(BodyText(b)).ok}

\* what the application-registry endpoint may answer; runs with two calls in
\* flight draw the answers from a smaller set
ApiResponses ==
    {Http(200, "obj"), Http(404, "obj")}
    \cup IF Cardinality(live) = 2
         THEN {}
         ELSE {Http(200, b) : b \in {"empty_obj", "list", "scalar", "notjson"}}
              \cup {Http(201, "obj"), Http(201, "notjson"), Http(204, "notjson"),
                    Http(204, "empty"), Http(304, "empty"), Http(500, "notjson"), NetFail,
                    Http(409, "err_desc_msg"), Http(400, "err_empty_desc"),
                    Http(403, "err_detail"), Http(502, "long_html")}

Obs(kind, status) == [kind |-> kind, status |-> status]
NoObs == Obs("", 0)

NoApiRequest == [method |-> "", url |-> <<>>, bearer |-> EmptyTok, sent |-> FALSE]

\* the downstream request each tool sends once it holds a token
ApiRequest(tool, arg, organization_name, access_token) ==
    LET apps == <<BaseUrl, organization_name, "api/server/v1/applications">> IN
    [method |-> CASE tool = "list_asgardeo_applications" -> "GET"
                  [] tool = "delete_asgardeo_application" -> "DELETE"
                  [] tool = "create_asgardeo_application" -> "POST"
                  [] tool = "search_asgardeo_applications" -> "GET",
     url |-> IF tool = "delete_asgardeo_application" THEN Append(apps, arg) ELSE apps,
     bearer |-> access_token,
     sent |-> TRUE]

Returns(kind, status) == [raises |-> "", obs |-> Obs(kind, status)]
Raises(exc) == [raises |-> exc, obs |-> NoObs]

\* the part of each tool's try block that follows the token exchange: the
\* observation it returns, or the exception it raises, on answer r
ToolTry(tool, r) ==
    IF r.net = "fail" THEN Raises("ConnectionError")
    ELSE CASE tool = "list_asgardeo_applications" ->
                IF IsHttpError(r.status) THEN Raises("HTTPError")
                ELSE IF r.body \in NotJsonBodies THEN Raises("JSONDecodeError")
                ELSE IF r.body = "empty_obj" THEN Returns("none_found", 0)
                ELSE IF r.body = "scalar" THEN Raises("AttributeError")
                ELSE Returns("found", 0)
           [] tool = "delete_asgardeo_application" ->
                IF r.status = 204 THEN Returns("deleted", 0)
                ELSE IF r.status >= 200 /\ r.status < 300
                THEN Returns("delete_confirmed", r.status)
                ELSE IF IsHttpError(r.status) THEN Raises("HTTPError")
                ELSE Returns("unexpected_status", r.status)
           [] tool = "create_asgardeo_application" ->
                IF r.status = 201
                THEN IF r.body \in NotJsonBodies THEN Returns("created_nojson", 0)
                     ELSE IF r.body \in {"obj", "empty_obj"} THEN Returns("created", 0)
                     ELSE Raises("AttributeError")
                ELSE IF IsHttpError(r.status) THEN Raises("HTTPError")
                ELSE Returns("unexpected_status", r.status)
           [] tool = "search_asgardeo_applications" ->
                IF IsHttpError(r.status) THEN Raises("HTTPError")
                ELSE IF r.body \in NotJsonBodies THEN Raises("JSONDecodeError")
                ELSE IF r.body \in {"scalar", "list"} THEN Raises("AttributeError")
                ELSE IF r.body = "empty_obj" THEN Returns("none_found", 0)
                ELSE Returns("found", 0)

\* the except clauses of each tool, tried in the order they are written
ToolExcept(tool, exc, status) ==
    IF IsValueError(exc) THEN Obs("token_error", 0)
    ELSE IF exc = "HTTPError" /\ tool # "list_asgardeo_applications"
    THEN Obs("http_error", status)
    ELSE IF IsRequestException(exc) THEN Obs("communication_error", status)
    ELSE Obs("unexpected_error", 0)

\* the observation of a tool whose downstream request was answered r
ToolObservation(tool, r) ==
    LET t == ToolTry(tool, r) IN
    IF t.raises = "" THEN t.obs
    ELSE ToolExcept(tool, t.raises, IF t.raises = "HTTPError" THEN r.status ELSE 0)

\* a member of a JSON object: absent (dict.get gives None) or present with a value
AbsentField == [present |-> FALSE, value |-> ""]
Field(v) == [present |-> TRUE, value |-> v]

\* len() of the tokens of a text
TokenLen(t) ==
    CASE t \in {"{", "}", "[", "]", ":", ",", "1"} -> 1
      [] t = "<pad194>" -> 194
      [] t \in {"<html>", "<more>"} -> 6
      [] t = "\"\"" -> 2
      [] t \in {"\"d\"", "\"m\"", "\"t\""} -> 3
      [] t = "\"id\"" -> 4
      [] t \in {"\"abc123\"", "\"detail\""} -> 8
      [] t = "\"message\"" -> 9
      [] t = "\"description\"" -> 13

RECURSIVE TextLen(_)
TextLen(text) == IF text = <<>> THEN 0 ELSE TokenLen(Head(text)) + TextLen(Tail(text))

\* text[:n], for texts whose n-th character ends a token
RECURSIVE Slice(_, _)
Slice(text, n) ==
    IF text = <<>> \/ TokenLen(Head(text)) > n THEN <<>>
    ELSE <<Head(text)>> \o Slice(Tail(text), n - TokenLen(Head(text)))

\* dict.get(key) on a parsed object
Get(value, key) ==
    IF Len(value) >= 3 /\ value[2] = key THEN Field(value[3])
    ELSE IF Len(value) >= 5 /\ value[4] = key THEN Field(value[5])
    ELSE AbsentField

\* truth value of what dict.get returned: None and "" are false
Truthy(field) == field.present /\ field.value # "\"\""

\* variant: the fields are tried in the order message, description, detail
ErrorDesc_MessageFirst(error_details) ==
    LET description == Get(error_details, "\"description\"")
        message == Get(error_details, "\"message\"")
        detail == Get(error_details, "\"detail\"")
    IN  IF Truthy(message) THEN message
        ELSE IF Truthy(description) THEN description
        ELSE detail

\* error_details.get('description') or error_details.get('message')
\* or error_details.get('detail')
ErrorDesc(error_details) ==
    LET description == Get(error_details, "\"description\"")
        message == Get(error_details, "\"message\"")
        detail == Get(error_details, "\"detail\"")
    IN  IF Truthy(description) THEN description
        ELSE IF Truthy(message) THEN message
        ELSE detail

NoMessage == [action |-> "", target |-> "", organization_name |-> "", status_code |-> 0,
              label |-> "", detail |-> <<>>]

\* the except HTTPError clause of delete, create and search (lines 181-197,
\* 297-310, 403-428): the message built from the error response r
HttpErrorMessage(tool, arg, organization_name, r) ==
    LET response_text == Slice(BodyText(r.body),
                               IF tool = "search_asgardeo_applications" THEN 500 ELSE 200)
        error_details == JsonLoads(BodyText(r.body))
        start == [action |-> CASE tool = "delete_asgardeo_application" ->
                                      "Failed to delete application ID"
                               [] tool = "create_asgardeo_application" ->
                                      "Failed to create application"
                               [] tool = "search_asgardeo_applications" ->
                                      "Failed to search applications matching",
                  target |-> arg, organization_name |-> organization_name,
                  status_code |-> r.status, label |-> "", detail |-> <<>>]
    IN  IF ~error_details.ok \/ error_details.value[1] # "object"
        THEN \* JSONDecodeError, or AttributeError of .get on a non-dict
             [start EXCEPT !.label = "Response", !.detail = response_text]
        ELSE LET desc == ErrorDesc(error_details.value) IN
             IF Truthy(desc)
             THEN [start EXCEPT !.label = "Detail", !.detail = <<desc.value>>]
             ELSE [start EXCEPT !.label = "Response", !.detail = response_text]

\* the message of a tool invocation whose request was answered r
ToolMessage(tool, arg, organization_name, r) ==
    IF tool # "list_asgardeo_applications" /\ ToolTry(tool, r).raises = "HTTPError"
    THEN HttpErrorMessage(tool, arg, organization_name, r)
    ELSE NoMessage

\* variant: the error of the exchange is swallowed and the tool goes on
ProceedsToApi_Always(outcome) == TRUE

\* whether the tool goes on to its downstream request after the exchange: it
\* does when get_asgardeo_access_token returned, a raise leaves the try block
ProceedsToApi(outcome) == outcome.returned

\* the observations that report a failure to the model
ErrorObservations == {"context_error", "invalid_argument", "token_error",
                      "communication_error", "http_error", "unexpected_error"}

\* record of one tool invocation
NoInv == [tool |-> "", arg |-> "", api_key_b64 |-> <<>>, organization_name |-> "",
          posts |-> 0, token_request |-> NoRequestSent, token_response |-> NoHttp,
          outcome |-> NoOutcome, access_token |-> EmptyTok,
          api_request |-> NoApiRequest, api_response |-> NoHttp, obs |-> NoObs,
          message |-> NoMessage, requests |-> 0]

(***************************************************************************)
(* main.py and agent.py: one /chat call.                                   *)
(***************************************************************************)
Whitespace == {" "}
\* not api_key.strip()
IsBlank(v) == \A i \in 1..Len(v) : v[i] \in Whitespace

\* ChatResponse (role "agent") for 200, the body of an HTTPException otherwise
Response(status, content) ==
    [status |-> status, role |-> IF status = 200 THEN "agent" ELSE "", content |-> content]
NoResponse == [status |-> 0, role |-> "", content |-> ""]

\* the messages of a chat: role and content (the content of message i is i)
Messages(chat) == [i \in 1..Len(chat) |-> [role |-> chat[i], content |-> i]]

\* variant: the first k messages are kept, seq[:k]
LastN_First(seq, k) == SubSeq(seq, 1, IF Len(seq) > k THEN k ELSE Len(seq))

\* seq[-k:] for k >= 1
LastN(seq, k) == SubSeq(seq, IF Len(seq) > k THEN Len(seq) - k + 1 ELSE 1, Len(seq))

NoAgentInput == [user_query |-> 0, chat_history |-> <<>>, formatted_history |-> <<>>]

\* the loop of run_agent_with_context over chat_history (src/agent.py 68-71)
FormatHistory(chat_history) ==
    LET known == SelectSeq(chat_history, LAMBDA msg : msg.role \in {"user", "agent"}) IN
    [i \in 1..Len(known) |->
        [type |-> IF known[i].role = "user" THEN "HumanMessage" ELSE "AIMessage",
         content |-> known[i].content]]

NoTokens == [api_key_token |-> KeyUnset, org_name_token |-> OrgUnset]
NoResets == [api_key |-> 0, org_name |-> 0]
NoProbe == [done |-> FALSE, at |-> "",
            api_key |-> [raised |-> FALSE, exc |-> "", value |-> <<>>],
            org_name |-> [raised |-> FALSE, exc |-> "", value |-> ""],
            started |-> [t \in Tools |-> [obs |-> NoObs, proceeds |-> FALSE]]]

\* arrival of a call and the dependency get_decoded_api_key (src/main.py 31-35)
Receive(c) ==
    /\ program = "main" /\ c \in live /\ pc[c] = "idle"
    /\ \E r \in RequestsOf(c) :
        /\ req' = [req EXCEPT ![c] = r]
        /\ IF ~r.api_key.present
           THEN /\ pc' = [pc EXCEPT ![c] = "done"]
                /\ resp' = [resp EXCEPT ![c] = Response(401, "Missing 'api-key' header")]
           ELSE IF IsBlank(r.api_key.value)
           THEN /\ pc' = [pc EXCEPT ![c] = "done"]
                /\ resp' = [resp EXCEPT ![c] = Response(401, "API key cannot be empty")]
           ELSE /\ pc' = [pc EXCEPT ![c] = "endpoint"]
                /\ UNCHANGED resp
    /\ UNCHANGED <<program, live, config, cvKey, cvOrg, tok, resets, agentIn, iter, inv,
                   serial, probe, ex, run, asst, codecVars, load>>

\* chat_endpoint up to the try block (src/main.py 52-74)
ChatEndpointBegin(c) ==
    /\ pc[c] = "endpoint"
    /\ LET organization_name == req[c].organization_name
           api_key_b64 == req[c].api_key.value
           api_key_token == cvKey[c]
           org_name_token == cvOrg[c]
           keySet == CvSet(cvKey, c, api_key_b64)
           orgSet == CvSet(cvOrg, c, organization_name)
           history_to_keep == LastN(Messages(req[c].chat), config.MAX_CHAT_HISTORY)
       IN  IF organization_name = ""
           THEN /\ pc' = [pc EXCEPT ![c] = "done"]
                /\ resp' = [resp EXCEPT ![c] =
                               Response(400, "Organization name missing in payload")]
                /\ UNCHANGED <<cvKey, cvOrg, tok, resets, agentIn>>
           ELSE IF ~config.has_MAX_CHAT_HISTORY
           THEN \* AttributeError at line 65, outside the try: nothing resets
                /\ cvKey' = keySet /\ cvOrg' = orgSet
                /\ tok' = [tok EXCEPT ![c] = [api_key_token |-> api_key_token,
                                              org_name_token |-> org_name_token]]
                /\ pc' = [pc EXCEPT ![c] = "done"]
                /\ resp' = [resp EXCEPT ![c] = Response(500, "Internal Server Error")]
                /\ UNCHANGED <<resets, agentIn>>
           ELSE IF history_to_keep = <<>>
                   \/ history_to_keep[Len(history_to_keep)].role # "user"
           THEN /\ cvKey' = CvReset(keySet, c, api_key_token)
                /\ cvOrg' = CvReset(orgSet, c, org_name_token)
                /\ tok' = [tok EXCEPT ![c] = [api_key_token |-> api_key_token,
                                              org_name_token |-> org_name_token]]
                /\ resets' = [resets EXCEPT ![c] = [api_key |-> @.api_key + 1,
                                                    org_name |-> @.org_name + 1]]
                /\ pc' = [pc EXCEPT ![c] = "done"]
                /\ resp' = [resp EXCEPT ![c] = Response(400, "Invalid chat payload.")]
                /\ UNCHANGED agentIn
           ELSE /\ cvKey' = keySet /\ cvOrg' = orgSet
                /\ tok' = [tok EXCEPT ![c] = [api_key_token |-> api_key_token,
                                              org_name_token |-> org_name_token]]
                /\ agentIn' = [agentIn EXCEPT ![c] =
                     [user_query |-> history_to_keep[Len(history_to_keep)].content,
                      chat_history |-> SubSeq(history_to_keep, 1, Len(history_to_keep) - 1),
                      formatted_history |-> <<>>]]
                /\ pc' = [pc EXCEPT ![c] = "agent_setup"]
                /\ UNCHANGED <<resets, resp>>
    /\ UNCHANGED <<program, live, config, req, iter, inv, serial, probe, ex, run, asst, codecVars, load>>

\* variant: chat_endpoint has no except clause and the exception takes the
\* serving process down: every call in flight ends without a response
AgentSetup_Crash(c) ==
    /\ pc[c] = "agent_setup"
    /\ \/ /\ pc' = [pc EXCEPT ![c] = "agent"]
          /\ agentIn' = [agentIn EXCEPT ![c].formatted_history =
                                            FormatHistory(agentIn[c].chat_history)]
       \/ /\ pc' = [d \in Calls |-> "done"]
          /\ UNCHANGED agentIn
    /\ UNCHANGED <<program, live, config, req, cvKey, cvOrg, tok, resets, iter,
                   inv, serial, resp, probe, ex, run, asst, codecVars, load>>

\* run_agent_with_context before the try block (src/agent.py 45-77): building
\* the model client, the prompt and the executor succeeds or raises
AgentSetup(c) ==
    /\ pc[c] = "agent_setup"
    /\ \/ /\ pc' = [pc EXCEPT ![c] = "agent"]
          /\ agentIn' = [agentIn EXCEPT ![c].formatted_history =
                                            FormatHistory(agentIn[c].chat_history)]
          /\ UNCHANGED resp
       \/ \* the exception reaches chat_endpoint's except clause (src/main.py 84-87)
          /\ pc' = [pc EXCEPT ![c] = "exit"]
          /\ resp' = [resp EXCEPT ![c] = Response(500, "An internal error occurred")]
          /\ UNCHANGED agentIn
    /\ UNCHANGED <<program, live, config, req, cvKey, cvOrg, tok, resets, iter,
                   inv, serial, probe, ex, run, asst, codecVars, load>>

\* one turn of agent_executor.invoke (src/agent.py 81-96): the model answers,
\* names a registered tool, or the turn raises
AgentStep(c) ==
    /\ pc[c] = "agent"
    /\ \/ /\ iter[c] < MaxIterations
          /\ pc' = [pc EXCEPT ![c] = "exit"]
          /\ resp' = [resp EXCEPT ![c] = Response(200, "final answer")]
          /\ inv' = [inv EXCEPT ![c] = NoInv]
       \/ /\ iter[c] < MaxIterations
          /\ pc' = [pc EXCEPT ![c] = "exit"]
          /\ resp' = [resp EXCEPT ![c] =
                         Response(200, "An error occurred while processing your request")]
          /\ inv' = [inv EXCEPT ![c] = NoInv]
       \/ \* the cap of the executor is reached: its stopped response is the answer
          /\ iter[c] = MaxIterations
          /\ pc' = [pc EXCEPT ![c] = "exit"]
          /\ resp' = [resp EXCEPT ![c] =
                         Response(200, "Agent stopped due to iteration limit or time limit.")]
          /\ inv' = [inv EXCEPT ![c] = NoInv]
       \/ /\ iter[c] < MaxIterations
          /\ \E tool \in Tools : \E arg \in ToolArgs(tool) :
                inv' = [inv EXCEPT ![c] = [NoInv EXCEPT !.tool = tool, !.arg = arg]]
          /\ pc' = [pc EXCEPT ![c] = "tool_ctx"]
          /\ UNCHANGED resp
    /\ UNCHANGED <<program, live, config, req, cvKey, cvOrg, tok, resets, agentIn, iter,
                   serial, probe, ex, run, asst, codecVars, load>>

\* variant: the argument of delete, create and search is not checked
ToolStart_NoArgCheck(tool, arg, k, o) ==
    IF k.raised \/ o.raised
    THEN [obs |-> Obs("context_error", 0), proceeds |-> FALSE]
    ELSE [obs |-> NoObs, proceeds |-> TRUE]

\* the lines of a context tool before its try block: the two context reads, whose
\* RuntimeError is returned as an error string, then the check of the argument
\* (src/tools/app_mgt_tools.py 52-58, 129-139, 218-228, 329-338); proceeds tells
\* whether the tool goes on to the token exchange
ToolStart(tool, arg, k, o) ==
    IF k.raised \/ o.raised
    THEN [obs |-> Obs("context_error", 0), proceeds |-> FALSE]
    ELSE IF tool # "list_asgardeo_applications" /\ arg = ""
    THEN [obs |-> Obs("invalid_argument", 0), proceeds |-> FALSE]
    ELSE [obs |-> NoObs, proceeds |-> TRUE]

\* start of a context tool: the two context reads and the argument check
\* (src/tools/app_mgt_tools.py 52-58, 129-139, 218-228, 329-338)
ToolReadContext(c) ==
    /\ pc[c] = "tool_ctx"
    /\ LET k == get_request_api_key(c)
           o == get_request_org_name(c)
           s == ToolStart(inv[c].tool, inv[c].arg, k, o)
       IN  /\ inv' = [inv EXCEPT
                         ![c].api_key_b64 = IF k.raised \/ o.raised THEN @ ELSE k.value,
                         ![c].organization_name = IF k.raised \/ o.raised THEN @ ELSE o.value,
                         ![c].obs = s.obs]
           /\ IF s.proceeds
              THEN /\ pc' = [pc EXCEPT ![c] = "tool_token"]
                   /\ UNCHANGED iter
              ELSE /\ pc' = [pc EXCEPT ![c] = "agent"]
                   /\ iter' = [iter EXCEPT ![c] = @ + 1]
    /\ UNCHANGED <<program, live, config, req, cvKey, cvOrg, tok, resets, agentIn, serial,
                   resp, probe, ex, run, asst, codecVars, load>>

\* the tool's call of get_asgardeo_access_token (src/auth.py 43-125): one POST,
\* its answer, and the except ValueError clause of the tool when it raises
TokenExchange(c) ==
    /\ pc[c] = "tool_token"
    /\ \E r \in TokenResponses(inv[c].organization_name, serial[c] + 1) :
        LET outcome == TokenOutcome(r)
            called == [inv[c] EXCEPT
                          !.posts = @ + 1,
                          !.token_request =
                              TokenRequest(inv[c].api_key_b64, inv[c].organization_name),
                          !.token_response = r,
                          !.outcome = outcome,
                          !.access_token = outcome.access_token]
        IN  IF ProceedsToApi(outcome)
            THEN /\ inv' = [inv EXCEPT ![c] = called]
                 /\ pc' = [pc EXCEPT ![c] = "tool_api"]
                 /\ UNCHANGED iter
            ELSE /\ inv' = [inv EXCEPT ![c] =
                                [called EXCEPT !.obs = ToolExcept(called.tool, outcome.exc, 0)]]
                 /\ pc' = [pc EXCEPT ![c] = "agent"]
                 /\ iter' = [iter EXCEPT ![c] = @ + 1]
    /\ serial' = [serial EXCEPT ![c] = @ + 1]
    /\ UNCHANGED <<program, live, config, req, cvKey, cvOrg, tok, resets, agentIn, resp,
                   probe, ex, run, asst, codecVars, load>>

\* the tool's downstream request and the observation made of its answer
ToolApiCall(c) ==
    /\ pc[c] = "tool_api"
    /\ \E r \in ApiResponses :
        inv' = [inv EXCEPT
                   ![c].api_request = ApiRequest(inv[c].tool, inv[c].arg,
                                                 inv[c].organization_name, inv[c].access_token),
                   ![c].api_response = r,
                   ![c].requests = @ + 1,
                   ![c].obs = ToolObservation(inv[c].tool, r),
                   ![c].message = ToolMessage(inv[c].tool, inv[c].arg,
                                              inv[c].organization_name, r)]
    /\ pc' = [pc EXCEPT ![c] = "agent"]
    /\ iter' = [iter EXCEPT ![c] = @ + 1]
    /\ UNCHANGED <<program, live, config, req, cvKey, cvOrg, tok, resets, agentIn, serial,
                   resp, probe, ex, run, asst, codecVars, load>>

\* the finally clause of chat_endpoint, then the response (src/main.py 89-96)
ChatEndpointExit(c) ==
    /\ pc[c] = "exit"
    /\ cvKey' = CvReset(cvKey, c, tok[c].api_key_token)
    /\ cvOrg' = CvReset(cvOrg, c, tok[c].org_name_token)
    /\ resets' = [resets EXCEPT ![c] = [api_key |-> @.api_key + 1,
                                        org_name |-> @.org_name + 1]]
    /\ pc' = [pc EXCEPT ![c] = "done"]
    /\ UNCHANGED <<program, live, config, req, tok, agentIn, iter, inv, serial, resp, probe,
                   ex, run, asst, codecVars, load>>

\* the argument of a tool called directly: none for list, else a non-empty one
DirectArg(tool) == IF tool = "list_asgardeo_applications" THEN "" ELSE "x"

\* a context read in the context of call c's task outside the window between
\* its set and its reset (a tool called directly, not by a running agent), and
\* how each context tool called there with a valid argument starts
ReadOutsideRequest(c) ==
    /\ program = "main" /\ c \in live /\ pc[c] \in {"idle", "done"}
    /\ ~probe[c].done
    /\ probe' = [probe EXCEPT ![c] =
                    [done |-> TRUE, at |-> pc[c],
                     api_key |-> get_request_api_key(c),
                     org_name |-> get_request_org_name(c),
                     started |-> [t \in Tools |->
                                     ToolStart(t, DirectArg(t), get_request_api_key(c),
                                               get_request_org_name(c))]]]
    /\ UNCHANGED <<program, live, config, pc, req, cvKey, cvOrg, tok, resets, agentIn, iter,
                   inv, serial, resp, ex, run, asst, codecVars, load>>

(***************************************************************************)
(* tools/api_execution_tool.py: the executor of the command-line agent.    *)
(***************************************************************************)
\* a path is a sequence of pieces: literal text or a {key} placeholder
Lit(text) == [ph |-> FALSE, s |-> text]
Ph(key) == [ph |-> TRUE, s |-> key]

\* path_params / query_params of a plan: JSON null or absent, a mapping (its
\* items in order, each value a text), or a list of names
NoParams == [shape |-> "null", items |-> <<>>]
Mapping(items) == [shape |-> "mapping", items |-> items]
NameList(names) == [shape |-> "list", items |-> names]

\* JSON values of a mapping: a string (its text in pieces) or an integer
StrVal(pieces) == [type |-> "str", pieces |-> pieces, n |-> 0]
IntVal(n) == [type |-> "int", pieces |-> <<>>, n |-> n]

\* str(value)
Str(value) == IF value.type = "int" THEN <<Lit(ToString(value.n))>> ELSE value.pieces

PlanPaths == { <<>>,
               <<Lit("/applications")>>,
               <<Lit("/applications/"), Ph("appId")>>,
               <<Lit("/applications/"), Ph("appId"), Lit("/copies/"), Ph("appId")>>,
               <<Lit("/Users/"), Ph("userId")>> }

PlanPathParams == { NoParams,
                    Mapping(<< <<"appId", StrVal(<<Lit("abc123")>>)>> >>),
                    Mapping(<< <<"other", StrVal(<<Lit("x")>>)>> >>),
                    Mapping(<< <<"other", StrVal(<<Lit("x")>>)>>,
                               <<"appId", StrVal(<<Lit("abc123")>>)>> >>),
                    Mapping(<< <<"userId", IntVal(42)>> >>),
                    NameList(<<"appId">>) }

\* mappings in which the value of one entry is the placeholder of another:
\* {"appId": "{other}", "other": "x"} and the same entries in the other order
ChainedPathParams ==
    { Mapping(<< <<"appId", StrVal(<<Ph("other")>>)>>, <<"other", StrVal(<<Lit("x")>>)>> >>),
      Mapping(<< <<"other", StrVal(<<Lit("x")>>)>>, <<"appId", StrVal(<<Ph("other")>>)>> >>) }

\* what json.loads makes of the executor's input string
ExecInputs ==
    [json : {"invalid", "array", "number", "string", "null"}, method : {AbsentField},
     path : {<<>>}, path_params : {NoParams}, query_params : {NoParams}]
    \cup [json : {"object"},
          method : {AbsentField, Field(""), Field("get"), Field("DELETE")},
          path : PlanPaths,
          path_params : PlanPathParams,
          query_params : {NoParams}]
    \cup [json : {"object"}, method : {Field("get")}, path : {<<Lit("/applications")>>},
          path_params : {NoParams},
          query_params : {Mapping(<< <<"limit", IntVal(10)>> >>), NameList(<<"limit">>)}]
    \cup [json : {"object"}, method : {Field("get")},
          path : {<<Lit("/applications/"), Ph("appId")>>},
          path_params : ChainedPathParams,
          query_params : {NoParams}]

NoExecInput == [json |-> "", method |-> AbsentField, path |-> <<>>, path_params |-> NoParams,
                query_params |-> NoParams]

\* variant: only the first occurrence of the placeholder is replaced
ReplacePlaceholder_First(path, key, value) ==
    IF \E i \in 1..Len(path) : path[i] = Ph(key)
    THEN LET k == CHOOSE i \in 1..Len(path) :
                     path[i] = Ph(key) /\ \A j \in 1..(i - 1) : path[j] # Ph(key)
         IN  SubSeq(path, 1, k - 1) \o value \o SubSeq(path, k + 1, Len(path))
    ELSE path

\* temp_path.replace(placeholder, str(value)) on a path
RECURSIVE ReplacePlaceholder(_, _, _)
ReplacePlaceholder(path, key, value) ==
    IF path = <<>> THEN <<>>
    ELSE (IF Head(path) = Ph(key) THEN value ELSE <<Head(path)>>)
         \o ReplacePlaceholder(Tail(path), key, value)

\* the loop over path_params_values.items() (src/tools/api_execution_tool.py 74-81)
RECURSIVE SubstitutePath(_, _)
SubstitutePath(path, items) ==
    IF items = <<>> THEN path
    ELSE LET key == Head(items)[1]
             value == Str(Head(items)[2])
         IN  SubstitutePath(IF \E i \in 1..Len(path) : path[i] = Ph(key)
                            THEN ReplacePlaceholder(path, key, value)
                            ELSE path,
                            Tail(items))

\* str.upper() of the methods of the model
Upper(m) == IF m = "get" THEN "GET" ELSE m

\* an observation of the executor: which return statement made it, the status
\* it names and the text it carries (response body or its re-serialisation)
ExText(kind, status, text) == [kind |-> kind, status |-> status, text |-> text]
ExObs(kind, status) == ExText(kind, status, <<>>)

\* the observations that begin with "API Request Failed:"
FailedPrefixKinds == {"http_failed", "request_failed", "unexpected_failed"}

NoExecRequest == [method |-> "", url |-> <<>>, bearer |-> "", params |-> NoParams,
                  sent |-> FALSE]

\* variant: the check of method and path is missing
ExecPrepare_NoPlanCheck(input, api_token) ==
    LET none == [obs |-> ExObs("", 0), raised |-> "", request |-> NoExecRequest] IN
    IF input.json = "invalid" THEN [none EXCEPT !.obs = ExObs("invalid_json", 0)]
    ELSE IF input.json # "object" THEN [none EXCEPT !.raised = "AttributeError"]
    ELSE IF api_token = "" THEN [none EXCEPT !.obs = ExObs("token_missing", 0)]
    ELSE [none EXCEPT !.request =
            [method |-> input.method.value,
             url |-> <<Lit(BaseUrl)>> \o input.path,
             bearer |-> api_token,
             params |-> input.query_params,
             sent |-> TRUE]]

\* _run up to the request (lines 38-93): the observation it returns at once,
\* the exception it lets escape, or the request it is about to send
ExecPrepare(input, api_token) ==
    LET none == [obs |-> ExObs("", 0), raised |-> "", request |-> NoExecRequest] IN
    IF input.json = "invalid" THEN [none EXCEPT !.obs = ExObs("invalid_json", 0)]
    ELSE IF input.json # "object" THEN [none EXCEPT !.raised = "AttributeError"]
    ELSE IF ~input.method.present \/ input.method.value = "" \/ input.path = <<>>
    THEN [none EXCEPT !.obs = ExObs("invalid_content", 0)]
    ELSE IF api_token = "" THEN [none EXCEPT !.obs = ExObs("token_missing", 0)]
    ELSE IF input.path_params.shape = "list" /\ input.path_params.items # <<>>
    THEN [none EXCEPT !.obs = ExObs("substitution_error", 0)]
    ELSE [none EXCEPT !.request =
            [method |-> Upper(input.method.value),
             url |-> <<Lit(BaseUrl)>> \o SubstitutePath(input.path, input.path_params.items),
             bearer |-> api_token,
             params |-> input.query_params,
             sent |-> TRUE]]

\* variant: a 2xx body is returned as received, parsed or not
ExecObservation_Raw(r) ==
    IF r.net = "fail" THEN ExObs("request_failed", 0)
    ELSE IF IsHttpError(r.status) THEN ExText("http_failed", r.status, BodyText(r.body))
    ELSE ExText("text", r.status, BodyText(r.body))

\* the handling of the answer (lines 95-124)
ExecObservation(r) ==
    IF r.net = "fail" THEN ExObs("request_failed", 0)
    ELSE IF IsHttpError(r.status) THEN ExText("http_failed", r.status, BodyText(r.body))
    ELSE LET response_data == JsonLoads(BodyText(r.body)) IN
         IF response_data.ok
         THEN ExText("json", r.status, JsonDumpsIndent2(response_data.value))
         ELSE ExText("text", r.status, BodyText(r.body))

\* requests.request raised before anything was sent
Unsent == [NoHttp EXCEPT !.net = "unsent"]

NoExec == [pc |-> "idle", input |-> NoExecInput, request |-> NoExecRequest,
           response |-> NoHttp, obs |-> ExObs("", 0), raised |-> ""]

(***************************************************************************)
(* tools/api_spec_assistant.py: the two spec assistants.                   *)
(***************************************************************************)
AssistantTools == {"app_mgt_api_spec_assistant", "scim2_api_spec_assistant"}

\* parsed JSON, as far as the tools look into it: its type and, for an object,
\* its keys
Json(type, keys) == [type |-> type, keys |-> keys]
NoJson == Json("", {})
PlanKeys == {"method", "path", "query_params", "path_params", "request_body_schema"}

\* what chain.invoke (prompt | llm | parser) does: it returns the parsed reply
\* of the model or raises
ChainValues ==
    { Json("object", PlanKeys), Json("object", {"error"}),
      Json("object", {"error", "method", "path"}), Json("object", {}),
      Json("array", {}), Json("scalar", {}), Json("null", {}) }
ChainRaises == {"JSONDecodeError", "OutputParserException", "APIConnectionError"}
ChainOutcomes ==
    [raises : {""}, value : ChainValues] \cup [raises : ChainRaises, value : {NoJson}]
NoChainOutcome == [raises |-> "", value |-> NoJson]

AsstResult(text, value) == [raised |-> "", error_text |-> text, value |-> value]

\* ApiAssistantTool._run (lines 93-128) on the outcome of its one chain.invoke:
\* json.dumps of the parsed reply, or of an error object
ApiAssistantRun(outcome) ==
    IF outcome.raises = "" THEN AsstResult("", outcome.value)
    ELSE IF outcome.raises = "JSONDecodeError"
    THEN AsstResult("Failed to parse LLM response as JSON.", Json("object", {"error"}))
    ELSE AsstResult("An unexpected error occurred in API assistant tool",
                    Json("object", {"error"}))

NoAsst == [pc |-> "idle", tool |-> "", llm_calls |-> 0, outcome |-> NoChainOutcome,
           result |-> AsstResult("", NoJson)]

(***************************************************************************)
(* main_agent.py: the ReAct loop of the command-line agent.                *)
(***************************************************************************)
\* AgentExecutor(max_iterations=10)
max_iterations == 10

\* variant: the loop has no cap
ShouldContinue_Always(iterations) == TRUE

\* AgentExecutor._should_continue
ShouldContinue(iterations) == iterations < max_iterations

\* a run of agent_executor.invoke: iterations made, whether an observation of
\* the executor that starts with "API Request Failed:" is in the transcript,
\* whether a spec assistant has returned, and the output
NoRun == [pc |-> "idle", iterations |-> 0, failed |-> FALSE, assisted |-> FALSE,
          output |-> ""]

\* agent_executor.invoke({"input": user_query}) (line 206), also for the next
\* question once a run has ended
RunInvoke ==
    /\ program = "main_agent" /\ run.pc \in {"idle", "done"}
    /\ run' = [NoRun EXCEPT !.pc = "think"]
    /\ UNCHANGED <<program, live, config, serverVars, ex, asst, codecVars, load>>

\* the model's reply is a final answer
ModelFinish ==
    /\ run.pc = "think" /\ ShouldContinue(run.iterations)
    /\ run' = [run EXCEPT !.pc = "done", !.output = "final_answer"]
    /\ UNCHANGED <<program, live, config, serverVars, ex, asst, codecVars, load>>

\* the model's reply does not parse or names no registered tool: the fixed
\* handle_parsing_errors text (or the invalid-tool text) is the observation
ModelMisformat ==
    /\ run.pc = "think" /\ ShouldContinue(run.iterations)
    /\ run' = [run EXCEPT !.iterations = @ + 1]
    /\ UNCHANGED <<program, live, config, serverVars, ex, asst, codecVars, load>>

\* the cap is reached: the run ends with the stopped response
RunStop ==
    /\ run.pc = "think" /\ ~ShouldContinue(run.iterations)
    /\ run' = [run EXCEPT !.pc = "done", !.output = "stopped"]
    /\ UNCHANGED <<program, live, config, serverVars, ex, asst, codecVars, load>>

\* the model names one of the spec assistants: _run makes its one model call
AssistantInvoke ==
    /\ run.pc = "think" /\ ShouldContinue(run.iterations)
    /\ \E tool \in AssistantTools : \E o \in ChainOutcomes :
          asst' = [pc |-> "done", tool |-> tool, llm_calls |-> 1, outcome |-> o,
                   result |-> ApiAssistantRun(o)]
    /\ run' = [run EXCEPT !.pc = "tool"]
    /\ UNCHANGED <<program, live, config, serverVars, ex, codecVars, load>>

\* the assistant's string is appended to the transcript as the observation
AssistantReturn ==
    /\ asst.pc = "done"
    /\ asst' = NoAsst
    /\ run' = [run EXCEPT !.pc = "think", !.iterations = @ + 1, !.assisted = TRUE]
    /\ UNCHANGED <<program, live, config, serverVars, ex, codecVars, load>>

\* the model invokes asgardeo_api_executor with some input string
ExecStart ==
    /\ program = "main_agent" /\ ex.pc = "idle"
    /\ run.pc = "think" /\ ShouldContinue(run.iterations)
    /\ \E input \in ExecInputs :
        LET p == ExecPrepare(input, config.api_token) IN
        ex' = [NoExec EXCEPT !.input = input, !.request = p.request, !.obs = p.obs,
                             !.raised = p.raised,
                             !.pc = IF p.request.sent THEN "request" ELSE "done"]
    /\ run' = [run EXCEPT !.pc = "tool"]
    /\ UNCHANGED <<program, live, config, serverVars, asst, codecVars, load>>

\* requests.request(...) and the observation made of its answer. A params
\* argument that is a list of names cannot be encoded: requests raises
\* ValueError while it prepares the request, nothing is sent, and the except
\* Exception clause answers (line 122-124)
ExecRequest ==
    /\ ex.pc = "request"
    /\ IF ex.request.params.shape = "list" /\ ex.request.params.items # <<>>
       THEN ex' = [ex EXCEPT !.response = Unsent, !.obs = ExObs("unexpected_failed", 0),
                             !.pc = "done"]
       ELSE \E r \in ApiResponses :
               ex' = [ex EXCEPT !.response = r, !.obs = ExecObservation(r), !.pc = "done"]
    /\ UNCHANGED <<program, live, config, serverVars, run, asst, codecVars, load>>

\* the observation goes back to the agent loop, which may invoke a tool again;
\* an exception of the tool ends the run in the handler of the chat loop
\* (main_agent.py 212-214)
ExecReturn ==
    /\ ex.pc = "done"
    /\ ex' = NoExec
    /\ run' = IF ex.raised # ""
              THEN [run EXCEPT !.pc = "done", !.output = "exception"]
              ELSE [run EXCEPT !.pc = "think", !.iterations = @ + 1,
                               !.failed = @ \/ ex.obs.kind \in FailedPrefixKinds]
    /\ UNCHANGED <<program, live, config, serverVars, asst, codecVars, load>>

(***************************************************************************)
(* utils/spec_loader.py: load_spec_from_url.                               *)
(***************************************************************************)
\* config.ASGARDEO_CONFIG["app_mgt_spec_url"] and ["scim2_spec_url"]
SpecUrls == {"app_mgt_spec_url", "scim2_spec_url"}

\* the documents a spec URL may serve (response.content), as token sequences:
\* nothing, JSON and YAML texts, texts with a tab, texts that are neither
SpecContents ==
    { <<>>,
      <<"{", "}">>,
      <<"{", "\"id\"", ":", "\"abc123\"", "}">>,
      <<"{", "\"id\"", ":", "1", "}">>,
      <<"openapi", ": ", "3.0.0">>,
      <<"[", "]">>,
      <<"[", "1", "]">>,
      <<"1">>,
      <<"\"abc123\"">>,
      <<"<html>">>,
      <<"{", "\t", "\"id\"", ":", "\"abc123\"", "}">>,
      <<"{", "\t", "}">>,
      <<"[", "\t", "1", "]">>,
      <<"\t", "1">>,
      <<"{">>,
      <<"a", ": ", "b", ": ", "c">> }

\* what the server of a spec URL may answer
SpecResponse(net, status, content) == [net |-> net, status |-> status, content |-> content]
SpecResponses ==
    {SpecResponse("fail", 0, <<>>)}
    \cup {SpecResponse("ok", 200, content) : content \in SpecContents}
    \cup {SpecResponse("ok", 304, <<>>)}
    \cup {SpecResponse("ok", st, content) : st \in {403, 404, 500}, content \in SpecContents}

\* plain (unquoted) YAML scalars of the documents
PlainScalars == {"openapi", "3.0.0", "<html>", "a", "b", "c"}

YamlError == [ok |-> FALSE, value |-> <<>>]

\* yaml.safe_load on the documents of the model. The scanner skips spaces and
\* line breaks only, so a tab where a token should start is a ScannerError;
\* the empty document is None; JSON texts are flow collections and scalars; a
\* plain scalar is a string; "key: value" is a block mapping; a second ": " on
\* the line and an unclosed "{" are errors.
YamlSafeLoad(content) ==
    IF \E i \in 1..Len(content) : content[i] = "\t" THEN YamlError
    ELSE IF content = <<>> THEN Parsed(<<"null">>)
    ELSE IF JsonLoads(content).ok THEN JsonLoads(content)
    ELSE IF Len(content) = 1 /\ content[1] \in PlainScalars
    THEN Parsed(<<"scalar", content[1]>>)
    ELSE IF Len(content) = 3 /\ content[1] \in PlainScalars /\ content[2] = ": "
            /\ content[3] \in PlainScalars
    THEN Parsed(<<"object", content[1], content[3]>>)
    ELSE YamlError

\* json.loads on the documents: whitespace between tokens is skipped
JsonLoadsContent(content) == JsonLoads(SelectSeq(content, LAMBDA t : t # "\t"))

\* isinstance(spec, dict)
IsDict(value) == value[1] = "object"

LoadReturns(spec, format) ==
    [returned |-> TRUE, spec |-> spec, format |-> format, raised |-> "", cause |-> ""]
LoadRaises(exc, cause) ==
    [returned |-> FALSE, spec |-> <<>>, format |-> "", raised |-> exc, cause |-> cause]
NotLoaded == LoadRaises("", "")

\* variant: JSON is tried first, YAML when JSON parsing fails
load_spec_from_url_JsonFirst(r) ==
    IF r.net = "fail" THEN LoadRaises("ConnectionError", "RequestException")
    ELSE IF IsHttpError(r.status) THEN LoadRaises("ConnectionError", "HTTPError")
    ELSE LET j == JsonLoadsContent(r.content) IN
         IF j.ok
         THEN IF IsDict(j.value) THEN LoadReturns(j.value, "json")
              ELSE LoadRaises("RuntimeError", "ValueError: JSON content is not a dictionary")
         ELSE LET y == YamlSafeLoad(r.content) IN
              IF y.ok
              THEN IF IsDict(y.value) THEN LoadReturns(y.value, "yaml")
                   ELSE LoadRaises("RuntimeError",
                                   "ValueError: YAML content is not a dictionary")
              ELSE LoadRaises("RuntimeError", "ValueError: could not parse")

\* load_spec_from_url on the answer r of the server (lines 8-38)
load_spec_from_url(r) ==
    IF r.net = "fail" THEN LoadRaises("ConnectionError", "RequestException")
    ELSE IF IsHttpError(r.status) THEN LoadRaises("ConnectionError", "HTTPError")
    ELSE LET y == YamlSafeLoad(r.content) IN
         IF y.ok
         THEN IF IsDict(y.value) THEN LoadReturns(y.value, "yaml")
              ELSE LoadRaises("RuntimeError", "ValueError: YAML content is not a dictionary")
         ELSE LET j == JsonLoadsContent(r.content) IN
              IF j.ok
              THEN IF IsDict(j.value) THEN LoadReturns(j.value, "json")
                   ELSE LoadRaises("RuntimeError",
                                   "ValueError: JSON content is not a dictionary")
              ELSE LoadRaises("RuntimeError", "ValueError: could not parse")

NoSpecResponse == SpecResponse("none", 0, <<>>)
NoLoad == [pc |-> "idle", url |-> "", response |-> NoSpecResponse, result |-> NotLoaded]

(***************************************************************************)
(* The two programs.                                                       *)
(***************************************************************************)
Init ==
    /\ program \in {"main", "main_agent"}
    /\ live \in IF program = "main" THEN {{"A"}, Calls} ELSE {{}}
    /\ config \in {cf \in Configs :
                     IF program = "main" THEN cf.api_token = ""
                     ELSE ~cf.has_MAX_CHAT_HISTORY}
    /\ pc = [c \in Calls |-> "idle"]
    /\ req = [c \in Calls |-> NoRequest]
    /\ cvKey = [c \in Calls |-> KeyUnset]
    /\ cvOrg = [c \in Calls |-> OrgUnset]
    /\ tok = [c \in Calls |-> NoTokens]
    /\ resets = [c \in Calls |-> NoResets]
    /\ agentIn = [c \in Calls |-> NoAgentInput]
    /\ iter = [c \in Calls |-> 0]
    /\ inv = [c \in Calls |-> NoInv]
    /\ serial = [c \in Calls |-> 0]
    /\ resp = [c \in Calls |-> NoResponse]
    /\ probe = [c \in Calls |-> NoProbe]
    /\ ex = NoExec
    /\ run = NoRun
    /\ asst = NoAsst
    /\ header = <<>>
    /\ cred = NoCredential
    /\ decoded = NotDecoded
    /\ load = NoLoad

Next ==
    \/ \E c \in Calls : Receive(c)
    \/ \E c \in Calls : ChatEndpointBegin(c)
    \/ \E c \in Calls : AgentSetup(c)
    \/ \E c \in Calls : AgentStep(c)
    \/ \E c \in Calls : ToolReadContext(c)
    \/ \E c \in Calls : TokenExchange(c)
    \/ \E c \in Calls : ToolApiCall(c)
    \/ \E c \in Calls : ChatEndpointExit(c)
    \/ \E c \in Calls : ReadOutsideRequest(c)
    \/ RunInvoke
    \/ ModelFinish
    \/ ModelMisformat
    \/ RunStop
    \/ AssistantInvoke
    \/ AssistantReturn
    \/ ExecStart
    \/ ExecRequest
    \/ ExecReturn

Spec == Init /\ [][Next]_vars

(***************************************************************************)
(* decode_api_key as a program of its own: the header is drawn from the    *)
(* encodings of bounded credentials and from bounded raw strings.          *)
(***************************************************************************)
\* str.encode('utf-8') of a sequence of code points below 0x800
RECURSIVE Utf8Encode(_)
Utf8Encode(text) ==
    IF text = <<>> THEN <<>>
    ELSE LET cp == Head(text) IN
         (IF cp < 128 THEN <<cp>> ELSE <<192 + (cp \div 64), 128 + (cp % 64)>>)
         \o Utf8Encode(Tail(text))

\* base64.b64encode: three bytes to four characters, '=' padding
RECURSIVE B64Encode(_)
B64Encode(b) ==
    LET ch(v) == B64Alphabet[v + 1] IN
    IF b = <<>> THEN <<>>
    ELSE IF Len(b) = 1
    THEN <<ch(b[1] \div 4), ch((b[1] % 4) * 16), "=", "=">>
    ELSE IF Len(b) = 2
    THEN <<ch(b[1] \div 4), ch((b[1] % 4) * 16 + (b[2] \div 16)), ch((b[2] % 16) * 4), "=">>
    ELSE <<ch(b[1] \div 4), ch((b[1] % 4) * 16 + (b[2] \div 16)),
           ch((b[2] % 16) * 4 + (b[3] \div 64)), ch(b[3] % 64)>>
         \o B64Encode(SubSeq(b, 4, Len(b)))

\* the code points of client ids (no ':') and of client secrets
IdChars == {97, 233}
SecretChars == {98, Colon}
ClientIds == SeqsUpTo(IdChars, MaxIdLen) \ {<<>>}
ClientSecrets == SeqsUpTo(SecretChars, MaxSecretLen) \ {<<>>}

Prefixes == { <<>>,
              <<"B", "a", "s", "i", "c", " ">>,
              <<"b", "a", "s", "i", "c", " ">>,
              <<"B", "A", "S", "I", "C", " ">>,
              <<"b", "A", "s", "I", "c", " ">> }

RawChars == {"Y", "T", "p", "i", "=", "!", "/"}

\* further malformed headers: non-ASCII, empty id, a bare prefix, junk after a prefix
ExtraHeaders == { <<"é">>,
                  <<"O", "i", "T", "=">>,
                  <<"B", "a", "s", "i", "c", " ">>,
                  <<"B", "a", "s", "i", "c", "Y", "T", "p", "i">>,
                  <<"b", "a", "s", "i", "c", " ", "Y", "T", "p", "i", " ">> }

CodecInputs ==
    {[header |-> p \o B64Encode(Utf8Encode(id \o <<Colon>> \o sec)),
      cred |-> [encoded |-> TRUE, prefix |-> p, id |-> id, secret |-> sec]]
        : p \in Prefixes, id \in ClientIds, sec \in ClientSecrets}
    \cup {[header |-> h, cred |-> NoCredential]
        : h \in SeqsUpTo(RawChars, MaxRawLen) \cup ExtraHeaders}

InitCodec ==
    /\ program = "decode"
    /\ live = {}
    /\ config \in {cf \in Configs : ~cf.has_MAX_CHAT_HISTORY /\ cf.api_token = ""}
    /\ pc = [c \in Calls |-> "idle"]
    /\ req = [c \in Calls |-> NoRequest]
    /\ cvKey = [c \in Calls |-> KeyUnset]
    /\ cvOrg = [c \in Calls |-> OrgUnset]
    /\ tok = [c \in Calls |-> NoTokens]
    /\ resets = [c \in Calls |-> NoResets]
    /\ agentIn = [c \in Calls |-> NoAgentInput]
    /\ iter = [c \in Calls |-> 0]
    /\ inv = [c \in Calls |-> NoInv]
    /\ serial = [c \in Calls |-> 0]
    /\ resp = [c \in Calls |-> NoResponse]
    /\ probe = [c \in Calls |-> NoProbe]
    /\ ex = NoExec
    /\ run = NoRun
    /\ asst = NoAsst
    /\ \E x \in CodecInputs : header = x.header /\ cred = x.cred
    /\ decoded = NotDecoded
    /\ load = NoLoad

\* one call of decode_api_key
Decode ==
    /\ program = "decode" /\ decoded = NotDecoded
    /\ decoded' = decode_api_key(header)
    /\ UNCHANGED <<program, live, config, serverVars, ex, run, asst, header, cred, load>>

NextCodec == Decode

SpecCodec == InitCodec /\ [][NextCodec]_vars

(***************************************************************************)
(* load_spec_from_url as a program of its own: one call for a spec URL     *)
(* whose server answers with one of the bounded documents.                 *)
(***************************************************************************)
InitLoader ==
    /\ program = "load_spec"
    /\ live = {}
    /\ config \in {cf \in Configs : ~cf.has_MAX_CHAT_HISTORY /\ cf.api_token = ""}
    /\ pc = [c \in Calls |-> "idle"]
    /\ req = [c \in Calls |-> NoRequest]
    /\ cvKey = [c \in Calls |-> KeyUnset]
    /\ cvOrg = [c \in Calls |-> OrgUnset]
    /\ tok = [c \in Calls |-> NoTokens]
    /\ resets = [c \in Calls |-> NoResets]
    /\ agentIn = [c \in Calls |-> NoAgentInput]
    /\ iter = [c \in Calls |-> 0]
    /\ inv = [c \in Calls |-> NoInv]
    /\ serial = [c \in Calls |-> 0]
    /\ resp = [c \in Calls |-> NoResponse]
    /\ probe = [c \in Calls |-> NoProbe]
    /\ ex = NoExec
    /\ run = NoRun
    /\ asst = NoAsst
    /\ header = <<>>
    /\ cred = NoCredential
    /\ decoded = NotDecoded
    /\ \E url \in SpecUrls : load = [NoLoad EXCEPT !.pc = "fetch", !.url = url]

\* requests.get(url) is answered, and the rest of load_spec_from_url
LoadSpec ==
    /\ program = "load_spec" /\ load.pc = "fetch"
    /\ \E r \in SpecResponses :
          load' = [load EXCEPT !.pc = "done", !.response = r,
                               !.result = load_spec_from_url(r)]
    /\ UNCHANGED <<program, live, config, serverVars, ex, run, asst, codecVars>>

NextLoader == LoadSpec

SpecLoader == InitLoader /\ [][NextLoader]_vars

(***************************************************************************)
(* Properties.                                                             *)
(***************************************************************************)
\* call c is past the point where chat_endpoint sets the context variables
EnteredSet(c) ==
    /\ pc[c] \notin {"idle", "endpoint"}
    /\ req[c].api_key.present /\ ~IsBlank(req[c].api_key.value)
    /\ req[c].organization_name # ""

\* a tool invoked during call c has made its two context reads
ToolHasRead(c) ==
    /\ inv[c].tool # ""
    /\ pc[c] \in {"tool_token", "tool_api"} \/ inv[c].obs # NoObs

\* C1: context isolation. Whatever the interleaving of two calls with distinct
\* organization names and API keys, the api key and the organization name read
\* by a tool invoked during a call are that call's own, never the other call's.
C1_ContextIsolation ==
    \A c \in Calls :
        ToolHasRead(c) =>
            /\ inv[c].obs.kind # "context_error"
            /\ inv[c].api_key_b64 = req[c].api_key.value
            /\ inv[c].organization_name = req[c].organization_name
            /\ \A d \in Calls \ {c} :
                  EnteredSet(d) => /\ inv[c].api_key_b64 # req[d].api_key.value
                                   /\ inv[c].organization_name # req[d].organization_name

\* two calls with distinct credentials are both between set and reset, and a
\* tool of each has read the context
C1_Witness ==
    /\ cvKey["A"].isset /\ cvOrg["A"].isset /\ cvKey["B"].isset /\ cvOrg["B"].isset
    /\ req["A"].organization_name # req["B"].organization_name
    /\ pc["A"] = "tool_api" /\ pc["B"] = "tool_token"
    /\ inv["A"].organization_name = "orgA" /\ inv["B"].organization_name = "orgB"

\* C2: guaranteed cleanup. On every path that follows the setting of the two
\* context variables, each is reset exactly once before the call completes and
\* the context is unset afterwards.
C2_ResetExactlyOnce ==
    \A c \in Calls :
        pc[c] = "done" /\ EnteredSet(c) =>
            /\ resets[c] = [api_key |-> 1, org_name |-> 1]
            /\ ~cvKey[c].isset /\ ~cvOrg[c].isset

\* call c completed having set the context variables and never reset them
LeftSet(c) == pc[c] = "done" /\ EnteredSet(c) /\ resets[c] = NoResets

\* C3: the context getters fail with the not-set error when called before a
\* call has set the context or after the call has reset it, and return exactly
\* the values the call set when called between its set and its reset.
C3_ContextReads ==
    \A c \in Calls :
        /\ probe[c].done /\ (probe[c].at = "idle" \/ ~LeftSet(c)) =>
              /\ probe[c].api_key.raised /\ probe[c].api_key.exc = "RuntimeError"
              /\ probe[c].org_name.raised /\ probe[c].org_name.exc = "RuntimeError"
        /\ pc[c] \in {"tool_token", "tool_api"} =>
              /\ inv[c].api_key_b64 = cvKey[c].value /\ cvKey[c].isset
              /\ inv[c].organization_name = cvOrg[c].value /\ cvOrg[c].isset
              /\ cvKey[c].value = req[c].api_key.value
              /\ cvOrg[c].value = req[c].organization_name

\* a read after the call answered 200 and reset the context raised the error
C3_Witness ==
    \E c \in Calls :
        /\ probe[c].done /\ probe[c].at = "done" /\ probe[c].api_key.raised
        /\ resets[c] = [api_key |-> 1, org_name |-> 1] /\ resp[c].status = 200

\* C4: a call whose api-key header does not decode to a non-empty
\* clientId:clientSecret pair is rejected with an authentication failure before
\* any tool runs: no context is set, no token exchange and no downstream request.
C4_MalformedRejected ==
    \A c \in Calls :
        pc[c] # "idle" /\ ~decode_api_key(req[c].api_key.value).ok =>
            /\ ~cvKey[c].isset /\ ~cvOrg[c].isset
            /\ pc[c] \notin {"agent_setup", "agent", "tool_ctx", "tool_token", "tool_api", "exit"}
            /\ serial[c] = 0
            /\ pc[c] = "done" => resp[c].status = 401

\* C5: no unauthenticated fall-through. When the token exchange of a context
\* tool fails, the invocation ends with an error observation, sends no
\* downstream request and makes no second exchange; the executor without a
\* token returns an error observation and sends nothing; no request is ever
\* sent with an empty bearer.
C5_NoFallThrough ==
    /\ \A c \in Calls :
          /\ inv[c].posts > 0 /\ ~inv[c].outcome.returned =>
                /\ inv[c].posts = 1
                /\ pc[c] = "agent"
                /\ ~inv[c].api_request.sent
                /\ inv[c].obs.kind = "token_error"
                /\ inv[c].obs.kind \in ErrorObservations
          /\ pc[c] = "tool_api" \/ inv[c].api_request.sent =>
                inv[c].access_token # EmptyTok
    /\ ex.pc # "idle" /\ config.api_token = "" =>
          /\ ~ex.request.sent /\ ex.pc = "done"
          /\ ex.raised = "" => ex.obs.kind \in {"invalid_json", "invalid_content", "token_missing"}
    /\ ex.request.sent => ex.request.bearer # ""

\* a context tool ended on a failed exchange
C5_Witness ==
    \E c \in Calls :
        /\ pc[c] = "agent" /\ inv[c].posts = 1 /\ ~inv[c].outcome.returned
        /\ inv[c].token_response.status = 401 /\ inv[c].obs.kind = "token_error"

\* C6: every downstream request of the executor or of a context tool carries a
\* bearer token obtained by a token exchange made in the same invocation with
\* the call's own credential and tenant; a process-wide credential is never used.
C6_BearerFromOwnExchange ==
    /\ \A c \in Calls :
          inv[c].api_request.sent =>
              /\ inv[c].posts = 1 /\ inv[c].outcome.returned
              /\ inv[c].api_request.bearer = inv[c].token_response.access_token
              /\ inv[c].token_request =
                     TokenRequest(req[c].api_key.value, req[c].organization_name)
    /\ ex.request.sent => ex.request.bearer # config.api_token

\* C7: outcomes of get_asgardeo_access_token. 2xx with access_token T returns
\* T; 2xx without the field fails with the missing-token error; 4xx/5xx fails
\* with the real status code; a transport failure or a non-JSON body fails;
\* every failure is a ValueError and no empty token is ever returned.
C7_TokenOutcomes ==
    \A c \in Calls :
        inv[c].posts > 0 =>
            LET r == inv[c].token_response
                o == inv[c].outcome
                ok2xx == r.net = "ok" /\ r.status >= 200 /\ r.status < 300
            IN  /\ ok2xx /\ r.body = "obj" /\ r.has_token /\ r.access_token # EmptyTok =>
                      o.returned /\ o.access_token = r.access_token
                /\ ok2xx /\ r.body = "obj" /\ ~r.has_token =>
                      ~o.returned /\ o.reason = "Access token not found"
                /\ r.net = "ok" /\ r.status >= 400 =>
                      ~o.returned /\ o.status_code = r.status
                /\ r.net = "fail" \/ r.body = "notjson" => ~o.returned
                /\ ~o.returned => o.exc = "ValueError"
                /\ o.returned => o.access_token # EmptyTok
                /\ pc[c] = "tool_api" => inv[c].access_token # EmptyTok

\* the endpoint answered 200 with a body that has no (or an empty) access_token
C7_Witness ==
    \E c \in Calls :
        /\ inv[c].posts = 1 /\ inv[c].token_response.status = 200
        /\ inv[c].token_response.body = "obj"
        /\ inv[c].token_response.access_token = EmptyTok
        /\ ~inv[c].outcome.returned /\ inv[c].outcome.exc = "ValueError"

\* C8: a call of get_asgardeo_access_token issues exactly one POST to
\* {base_url}/{tenant}/oauth2/token with scope=SYSTEM, the client-credentials
\* form body and the credential blob unmodified in the Basic header, and never
\* retries; no token is cached: an invocation that reaches the downstream API
\* has made its own exchange and sends the token that exchange returned.
C8_OnePostNoCache ==
    \A c \in Calls :
        /\ inv[c].posts <= 1
        /\ inv[c].posts = 1 =>
              inv[c].token_request =
                  [method |-> "POST",
                   url |-> <<BaseUrl, req[c].organization_name, "oauth2", "token">>,
                   authorization |-> <<"Basic", req[c].api_key.value>>,
                   data |-> "grant_type=client_credentials",
                   params |-> "scope=SYSTEM"]
        /\ pc[c] = "tool_api" \/ inv[c].api_request.sent =>
              /\ inv[c].posts = 1
              /\ inv[c].access_token = Tok(req[c].organization_name, serial[c])
        /\ inv[c].api_request.sent =>
              inv[c].api_request.bearer = Tok(req[c].organization_name, serial[c])

\* the second tool invocation of a call sent its request with the token of its
\* own, second exchange
C8_Witness ==
    \E c \in Calls :
        /\ iter[c] = 2 /\ serial[c] = 2 /\ inv[c].api_request.sent
        /\ inv[c].api_request.bearer = Tok(req[c].organization_name, 2)

\* C9: decode round trip. For every non-empty id without ':' and every
\* non-empty secret, decode_api_key of base64(id:secret), with or without a
\* "Basic " prefix in any letter case, returns exactly (id, secret).
C9_DecodeRoundTrip ==
    decoded # NotDecoded /\ cred.encoded =>
        /\ decoded.ok
        /\ decoded.client_id = cred.id
        /\ decoded.client_secret = cred.secret

\* a mixed-case prefix, a two-byte character in the id and a ':' in the secret
C9_Witness ==
    /\ decoded.ok /\ cred.encoded
    /\ cred.prefix = <<"b", "A", "s", "I", "c", " ">>
    /\ cred.id = <<233, 97>> /\ cred.secret = <<Colon, 98>>
    /\ decoded.client_secret = <<Colon, 98>>

\* a header body in canonical base64: alphabet characters in groups of four,
\* '=' only as the last one or two characters of the last group
CanonicalBase64(b) ==
    /\ Len(b) % 4 = 0
    /\ \A i \in 1..Len(b) :
          \/ b[i] \in B64Chars
          \/ /\ b[i] = "="
             /\ i >= Len(b) - 1 /\ i > 2
             /\ i = Len(b) - 1 => b[Len(b)] = "="

\* C10: decode rejection. decode_api_key fails for every input whose decoded
\* text has no ':' or an empty half and for every input that is not valid
\* base64 or not valid text; no pair with an empty half is ever returned.
C10_RejectsMalformed ==
    decoded # NotDecoded =>
        /\ ~CanonicalBase64(StripBasic(header)) => ~decoded.ok
        /\ decoded.ok => decoded.client_id # <<>> /\ decoded.client_secret # <<>>
        /\ ~decoded.ok => decoded.status = 401

\* the input is no JSON text, or it is an object without a non-empty method or
\* without a non-empty path
BadPlan(input) ==
    \/ input.json = "invalid"
    \/ /\ input.json = "object"
       /\ ~input.method.present \/ input.method.value = "" \/ input.path = <<>>

ExecAnswered == ex.pc = "done" /\ ex.request.sent

\* C12: failure prefix contract. Whenever the executor has issued a request,
\* any non-2xx response yields the observation "API Request Failed: HTTP
\* <status>" followed by the response body, a transport failure yields an
\* observation with the "API Request Failed:" prefix, and nothing is raised.
C12_FailurePrefix ==
    ExecAnswered =>
        LET r == ex.response IN
        /\ ex.raised = ""
        /\ r.net = "ok" /\ ~(r.status >= 200 /\ r.status < 300) =>
              /\ ex.obs.kind = "http_failed"
              /\ ex.obs.status = r.status
              /\ ex.obs.text = BodyText(r.body)
        /\ r.net = "fail" => ex.obs.kind = "request_failed"
        /\ r.net # "ok" \/ ~(r.status >= 200 /\ r.status < 300) =>
              ex.obs.kind \in FailedPrefixKinds

\* the identifiers a plan substitutes into its path: the values of the
\* path_params entries whose placeholder occurs in the path
SubstitutedIds(input) ==
    IF input.path_params.shape # "mapping" THEN {}
    ELSE { Str(input.path_params.items[i][2])[1].s : i \in
             { k \in 1..Len(input.path_params.items) :
                 /\ Str(input.path_params.items[k][2]) # <<>>
                 /\ \E j \in 1..Len(input.path) :
                       input.path[j] = Ph(input.path_params.items[k][1]) } }

\* C13: 204 on a delete. For a delete-shaped plan with path_params answered
\* 204, the executor's observation is a non-empty success string that contains
\* the substituted identifier; delete_asgardeo_application answered 204 returns
\* its success string naming the application id.
C13_DeleteConfirmed ==
    /\ ExecAnswered /\ ex.input.method.value = "DELETE" /\ SubstitutedIds(ex.input) # {}
          /\ ex.response.net = "ok" /\ ex.response.status = 204 =>
          /\ ex.obs.text # <<>>
          /\ \A id \in SubstitutedIds(ex.input) :
                \E i \in 1..Len(ex.obs.text) : ex.obs.text[i] = id
    /\ \A c \in Calls :
          /\ inv[c].tool = "delete_asgardeo_application"
          /\ inv[c].api_response.net = "ok" /\ inv[c].api_response.status = 204
          => inv[c].obs.kind = "deleted"

\* the bodies of the model that are JSON texts, each with its pretty-printed form
PrettyBodies ==
    [obj |-> <<"{", "\n  ", "\"id\"", ": ", "\"abc123\"", "\n", "}">>,
     empty_obj |-> <<"{", "}">>,
     list |-> <<"[", "\n  ", "1", "\n", "]">>,
     scalar |-> <<"1">>]

\* C14: for a 2xx response the executor's observation is the body
\* pretty-printed as JSON when the body parses as JSON and the raw body text
\* when it does not.
C14_SuccessBody ==
    ExecAnswered /\ ex.response.net = "ok"
        /\ ex.response.status >= 200 /\ ex.response.status < 300 =>
        LET body == ex.response.body IN
        /\ ex.raised = ""
        /\ IF body \in DOMAIN PrettyBodies
           THEN ex.obs.kind = "json" /\ ex.obs.text = PrettyBodies[body]
           ELSE ex.obs.kind = "text" /\ ex.obs.text = BodyText(body)

\* a compact JSON object came back re-indented
C14_Witness ==
    /\ ExecAnswered /\ ex.response.status = 200 /\ ex.response.body = "obj"
    /\ ex.obs.text # BodyText("obj") /\ Len(ex.obs.text) = 7

\* the pieces that take the place of piece p: the string form of the value of
\* the entry whose key p names, p itself when p is text or names no entry
PieceImage(p, items) ==
    IF p.ph /\ \E i \in 1..Len(items) : items[i][1] = p.s
    THEN Str(items[CHOOSE i \in 1..Len(items) : items[i][1] = p.s][2])
    ELSE <<p>>

\* every piece of the path replaced by its image, in one pass
RECURSIVE ImageOfPath(_, _)
ImageOfPath(path, items) ==
    IF path = <<>> THEN <<>>
    ELSE PieceImage(Head(path), items) \o ImageOfPath(Tail(path), items)

\* no value of the mapping is itself a placeholder text
PlainValues(items) ==
    \A i \in 1..Len(items) : \A j \in 1..Len(Str(items[i][2])) : ~Str(items[i][2])[j].ph

\* C15: path substitution. For a mapping path_params every occurrence of {key}
\* in the path is replaced by the string form of its value; a key that does not
\* occur in the path is skipped; a placeholder without a key stays as it is;
\* in each case the request is issued.
C15_PathSubstitution ==
    /\ ex.pc # "idle" /\ ex.input.json = "object" /\ ~BadPlan(ex.input)
       /\ config.api_token # "" /\ ex.input.path_params.shape \in {"null", "mapping"} =>
          /\ ex.request.sent /\ ex.raised = ""
          /\ PlainValues(ex.input.path_params.items) =>
                ex.request.url =
                    <<Lit(BaseUrl)>> \o ImageOfPath(ex.input.path, ex.input.path_params.items)
    /\ ex.request.sent /\ ex.input.path = <<Lit("/Users/"), Ph("userId")>>
       /\ ex.input.path_params = Mapping(<< <<"userId", IntVal(42)>> >>) =>
          ex.request.url = <<Lit(BaseUrl), Lit("/Users/"), Lit("42")>>

\* both occurrences of {appId} replaced, the entry "other" skipped
C15_Witness ==
    /\ ex.request.sent
    /\ Len(ex.input.path_params.items) = 2 /\ ex.input.path_params.items[1][1] = "other"
    /\ ex.request.url = <<Lit(BaseUrl), Lit("/applications/"), Lit("abc123"),
                          Lit("/copies/"), Lit("abc123")>>

\* C16: stop on failure. Once an observation of the executor that begins with
\* "API Request Failed:" is in the transcript, no further tool is invoked in
\* that run and the run ends with a final answer.
C16_StopOnFailure ==
    run.failed =>
        /\ run.pc \in {"think", "done"}
        /\ ex.pc = "idle" /\ asst.pc = "idle"
        /\ run.pc = "done" => run.output = "final_answer"

(***************************************************************************)
(* The same programs with the scheduling the code relies on: a call that   *)
(* can take a step takes one (the event loop runs every task that is       *)
(* ready; the model, the token endpoint and the API answer), and so does   *)
(* the run of the command-line agent.                                      *)
(***************************************************************************)
CallStep(c) ==
    \/ ChatEndpointBegin(c) \/ AgentSetup(c) \/ AgentStep(c) \/ ToolReadContext(c)
    \/ TokenExchange(c) \/ ToolApiCall(c) \/ ChatEndpointExit(c)

RunStep ==
    \/ ModelFinish \/ ModelMisformat \/ RunStop \/ AssistantInvoke \/ AssistantReturn
    \/ ExecStart \/ ExecRequest \/ ExecReturn

SpecLive ==
    /\ Init /\ [][Next]_vars
    /\ \A c \in Calls : WF_vars(CallStep(c))
    /\ WF_vars(RunStep)

C18_AssistantBeforeExecutor ==
    ex.pc # "idle" => run.assisted /\ asst.pc = "idle"

\* C19: spec assistant result. _run makes one model call, raises nothing and
\* returns a JSON text; a parsed reply that is an object with the key "error"
\* comes back as an error and not as a plan with method and path; a parse
\* failure or any other exception comes back as an object whose only key is
\* "error".
C19_AssistantResult ==
    asst.pc = "done" =>
        /\ asst.llm_calls = 1
        /\ asst.result.raised = "" /\ asst.result.value.type # ""
        /\ asst.outcome.raises = "" /\ asst.outcome.value.type = "object"
              /\ "error" \in asst.outcome.value.keys =>
              /\ "error" \in asst.result.value.keys
              /\ ~({"method", "path"} \subseteq asst.result.value.keys)
        /\ asst.outcome.raises # "" => asst.result.value = Json("object", {"error"})

\* call c passed the header and organization checks in a process whose
\* configuration defines the history window
Validated(c) ==
    /\ pc[c] \notin {"idle", "endpoint"}
    /\ req[c].api_key.present /\ ~IsBlank(req[c].api_key.value)
    /\ req[c].organization_name # ""
    /\ config.has_MAX_CHAT_HISTORY

Failed(c) ==
    /\ pc[c] = "done"
    /\ \/ resp[c].status = 500
       \/ resp[c] = Response(200, "An error occurred while processing your request")

\* C21: exception isolation. An exception raised while a /chat call is
\* processed becomes an error response of that call (the error text of the
\* agent runner or an internal-error HTTP response); every call that completes
\* has a response; after the failure a call that has not arrived can still be
\* received and a call in flight can still take its next step; and no other
\* call sees the failed call's credential or tenant.
C21_ExceptionIsolation ==
    \A c \in Calls :
        /\ pc[c] = "done" => resp[c].status \in {200, 400, 401, 500}
        /\ Failed(c) =>
              /\ resp[c].status = 500 =>
                    resp[c].content \in {"Internal Server Error", "An internal error occurred"}
              /\ \A d \in live \ {c} :
                    /\ pc[d] = "idle" => ENABLED Receive(d)
                    /\ pc[d] \notin {"idle", "done"} => ENABLED CallStep(d)
                    /\ cvKey[d].isset => cvKey[d].value # req[c].api_key.value
                    /\ cvOrg[d].isset => cvOrg[d].value # req[c].organization_name
                    /\ ToolHasRead(d) /\ inv[d].obs.kind # "context_error" =>
                          /\ inv[d].api_key_b64 = req[d].api_key.value
                          /\ inv[d].organization_name = req[d].organization_name
                    /\ probe[d].done /\ ~probe[d].api_key.raised =>
                          probe[d].api_key.value # req[c].api_key.value
                    /\ probe[d].done /\ ~probe[d].org_name.raised =>
                          probe[d].org_name.value # req[c].organization_name

\* call A ended in the except clause of chat_endpoint, call B was answered
\* after a tool of its own ran
C21_Witness ==
    /\ pc["A"] = "done" /\ resp["A"] = Response(500, "An internal error occurred")
    /\ pc["B"] = "done" /\ resp["B"] = Response(200, "final answer") /\ iter["B"] >= 1

(***************************************************************************)
(* The programs facing a remote end that may never answer.  A call of      *)
(* requests waits for the answer as long as its timeout says, and without  *)
(* a timeout it waits for ever.                                            *)
(***************************************************************************)
\* the timeout argument of each downstream call: {} where none is passed
\* (src/auth.py 84-93, src/tools/app_mgt_tools.py 75, 160, 274, 367,
\* src/utils/spec_loader.py 10), the seconds where one is
\* (src/tools/api_execution_tool.py 102)
RequestTimeout ==
    [token |-> {}, tool |-> {}, spec |-> {}, executor |-> {30}]

\* whether requests gives up on a peer that never answers, raising Timeout
TimesOut(timeout) == timeout # {}

Silent == [NoHttp EXCEPT !.net = "silent"]

\* the token endpoint never answers the POST of get_asgardeo_access_token
TokenExchangeSilent(c) ==
    /\ pc[c] = "tool_token"
    /\ LET called == [inv[c] EXCEPT
                         !.posts = @ + 1,
                         !.token_request =
                             TokenRequest(inv[c].api_key_b64, inv[c].organization_name),
                         !.token_response = Silent]
       IN  IF TimesOut(RequestTimeout.token)
           THEN /\ inv' = [inv EXCEPT ![c] =
                              [called EXCEPT !.obs = ToolExcept(called.tool, "ValueError", 0)]]
                /\ pc' = [pc EXCEPT ![c] = "agent"]
                /\ iter' = [iter EXCEPT ![c] = @ + 1]
           ELSE /\ inv' = [inv EXCEPT ![c] = called]
                /\ pc' = [pc EXCEPT ![c] = "tool_token_wait"]
                /\ UNCHANGED iter
    /\ UNCHANGED <<program, live, config, req, cvKey, cvOrg, tok, resets, agentIn, serial, resp,
                   probe, ex, run, asst, codecVars, load>>

\* the API never answers the request of a context tool
ToolApiSilent(c) ==
    /\ pc[c] = "tool_api"
    /\ LET called == [inv[c] EXCEPT
                         !.api_request = ApiRequest(inv[c].tool, inv[c].arg,
                                                    inv[c].organization_name,
                                                    inv[c].access_token),
                         !.requests = @ + 1,
                         !.api_response = Silent]
       IN  IF TimesOut(RequestTimeout.tool)
           THEN /\ inv' = [inv EXCEPT ![c] =
                              [called EXCEPT !.obs = ToolExcept(called.tool, "Timeout", 0)]]
                /\ pc' = [pc EXCEPT ![c] = "agent"]
                /\ iter' = [iter EXCEPT ![c] = @ + 1]
           ELSE /\ inv' = [inv EXCEPT ![c] = called]
                /\ pc' = [pc EXCEPT ![c] = "tool_api_wait"]
                /\ UNCHANGED iter
    /\ UNCHANGED <<program, live, config, req, cvKey, cvOrg, tok, resets, agentIn, serial, resp,
                   probe, ex, run, asst, codecVars, load>>

\* the API never answers the request of the executor: Timeout is a
\* RequestException (src/tools/api_execution_tool.py 119-121)
ExecRequestSilent ==
    /\ ex.pc = "request"
    /\ ~(ex.request.params.shape = "list" /\ ex.request.params.items # <<>>)
    /\ ex' = IF TimesOut(RequestTimeout.executor)
             THEN [ex EXCEPT !.response = Silent, !.obs = ExObs("request_failed", 0),
                             !.pc = "done"]
             ELSE [ex EXCEPT !.response = Silent, !.pc = "request_wait"]
    /\ UNCHANGED <<program, live, config, serverVars, run, asst, codecVars, load>>

\* the server of the spec URL never answers requests.get
LoadSpecSilent ==
    /\ program = "load_spec" /\ load.pc = "fetch"
    /\ load' = IF TimesOut(RequestTimeout.spec)
               THEN [load EXCEPT !.pc = "done",
                                 !.response = SpecResponse("silent", 0, <<>>),
                                 !.result = LoadRaises("ConnectionError", "Timeout")]
               ELSE [load EXCEPT !.pc = "fetch_wait",
                                 !.response = SpecResponse("silent", 0, <<>>)]
    /\ UNCHANGED <<program, live, config, serverVars, ex, run, asst, codecVars>>

InitNet ==
    \/ Init /\ Cardinality(live) <= 1
    \/ InitLoader

NextNet ==
    \/ Next
    \/ NextLoader
    \/ \E c \in Calls : TokenExchangeSilent(c)
    \/ \E c \in Calls : ToolApiSilent(c)
    \/ ExecRequestSilent
    \/ LoadSpecSilent

\* every task that can take a step takes one
SpecNet ==
    /\ InitNet /\ [][NextNet]_vars
    /\ \A c \in Calls : WF_vars(CallStep(c) \/ TokenExchangeSilent(c) \/ ToolApiSilent(c))
    /\ WF_vars(RunStep \/ ExecRequestSilent)
    /\ WF_vars(NextLoader \/ LoadSpecSilent)

\* C22: bounded timeouts. Every downstream HTTP call (token exchange, request
\* of a context tool, request of the executor, fetch of a spec document) whose
\* remote end never answers eventually ends, and it ends as a network-class
\* failure.
C22_BoundedTimeouts ==
    /\ \A c \in Calls :
          /\ (inv[c].token_response = Silent) ~>
                (pc[c] = "agent" /\ inv[c].obs.kind = "token_error")
          /\ (inv[c].api_response = Silent) ~>
                (pc[c] = "agent" /\ inv[c].obs.kind = "communication_error")
    /\ (ex.response = Silent) ~> (ex.pc = "done" /\ ex.obs.kind = "request_failed")
    /\ (load.response.net = "silent") ~>
          (load.pc = "done" /\ load.result.raised = "ConnectionError")

(***************************************************************************)
(* The /chat server under the schedule of its event loop.  Spec lets the   *)
(* steps of two calls interleave freely, which covers every scheduler.     *)
(* The code runs chat_endpoint as a coroutine on the one event loop of the *)
(* process, and the coroutine has no await: run_agent_with_context,        *)
(* agent_executor.invoke and the requests calls of the tools are plain     *)
(* synchronous calls (src/main.py 44-96, src/agent.py 82, src/auth.py 84). *)
(* From the start of the handler's body to its return the loop runs        *)
(* nothing else.                                                           *)
(***************************************************************************)
\* the positions inside the body of chat_endpoint
InHandler == {"agent_setup", "agent", "tool_ctx", "tool_token", "tool_api", "exit"}

\* the event loop is free to run a step of call c's task
LoopFree(c) == \A d \in Calls \ {c} : pc[d] \notin InHandler

LoopStep(c) ==
    LoopFree(c) /\ (Receive(c) \/ CallStep(c) \/ ReadOutsideRequest(c))

InitLoop == Init /\ program = "main"

NextLoop ==
    \/ \E c \in Calls : LoopFree(c) /\ Receive(c)
    \/ \E c \in Calls : LoopFree(c) /\ ChatEndpointBegin(c)
    \/ \E c \in Calls : LoopFree(c) /\ AgentSetup(c)
    \/ \E c \in Calls : LoopFree(c) /\ AgentStep(c)
    \/ \E c \in Calls : LoopFree(c) /\ ToolReadContext(c)
    \/ \E c \in Calls : LoopFree(c) /\ TokenExchange(c)
    \/ \E c \in Calls : LoopFree(c) /\ ToolApiCall(c)
    \/ \E c \in Calls : LoopFree(c) /\ ChatEndpointExit(c)
    \/ \E c \in Calls : LoopFree(c) /\ ReadOutsideRequest(c)

SpecLoop == InitLoop /\ [][NextLoop]_vars

\* call c waits for the language model, the token endpoint or the API
Waiting(c) == pc[c] \in {"agent", "tool_token", "tool_api"}

\* C23: non-blocking. While one /chat call waits on a token exchange, a
\* downstream API call or a language-model call, another inbound call can be
\* accepted, and one already accepted can take its next step.
C23_NonBlocking ==
    \A c \in live : \A d \in live \ {c} :
        Waiting(c) =>
            /\ pc[d] = "idle" => ENABLED LoopStep(d)
            /\ pc[d] \notin {"idle", "done"} => ENABLED LoopStep(d)

\* the documents of the model that YAML reads as a mapping, and those that
\* only JSON reads as a mapping (a tab stops the YAML scanner)
YamlMappingDocs ==
    { <<"{", "}">>,
      <<"{", "\"id\"", ":", "\"abc123\"", "}">>,
      <<"{", "\"id\"", ":", "1", "}">>,
      <<"openapi", ": ", "3.0.0">> }
JsonOnlyMappingDocs ==
    { <<"{", "\t", "\"id\"", ":", "\"abc123\"", "}">>,
      <<"{", "\t", "}">> }

\* C24: load_spec_from_url tries YAML first and JSON only when YAML parsing
\* fails, and returns nothing but a mapping: a document that decodes to a
\* non-mapping, a document that parses as neither format and a failed fetch
\* each end the load with an exception.
C24_LoadSpec ==
    load.pc = "done" =>
        LET r == load.response
            res == load.result
            fetched == r.net = "ok" /\ ~(r.status >= 400)
        IN  /\ res.returned <=> res.raised = ""
            /\ res.returned => res.spec # <<>> /\ res.spec[1] = "object"
            /\ ~fetched => res.raised = "ConnectionError"
            /\ fetched /\ r.content \in YamlMappingDocs =>
                  res.returned /\ res.format = "yaml"
            /\ fetched /\ r.content \in JsonOnlyMappingDocs =>
                  res.returned /\ res.format = "json"
            /\ fetched /\ r.content \notin (YamlMappingDocs \cup JsonOnlyMappingDocs) =>
                  res.raised = "RuntimeError"

\* a JSON object with a tab after the brace: YAML fails, JSON gives the mapping
C24_Witness ==
    /\ load.pc = "done" /\ load.response.status = 200
    /\ load.response.content = <<"{", "\t", "\"id\"", ":", "\"abc123\"", "}">>
    /\ load.result.returned /\ load.result.format = "json"
    /\ load.result.spec = <<"object", "\"id\"", "\"abc123\"">>

\* the start of the message each tool builds for an HTTP error of its request
FailedTo ==
    [delete_asgardeo_application |-> "Failed to delete application ID",
     create_asgardeo_application |-> "Failed to create application",
     search_asgardeo_applications |-> "Failed to search applications matching"]

\* the error bodies of the model with a description, message or detail field:
\* the value of the first of the three fields that is present, and of the
\* first that is not empty
ErrorFieldOf ==
    [err_desc_msg |-> [first |-> "\"d\"", shown |-> "\"d\""],
     err_empty_desc |-> [first |-> "\"\"", shown |-> "\"m\""],
     err_detail |-> [first |-> "\"t\"", shown |-> "\"t\""]]

\* a is the beginning of b
IsPrefixOf(a, b) == Len(a) <= Len(b) /\ SubSeq(b, 1, Len(a)) = a

\* C25: failure detail. When the request of the delete, create or search tool
\* is answered with an HTTP error, the observation names the attempted action
\* and its target, contains the status code, and contains the first present of
\* the description, message and detail fields of a JSON error body (every text
\* contains an empty one), or otherwise an excerpt of the raw body.
C25_FailureDetail ==
    \A c \in Calls :
        LET r == inv[c].api_response
            m == inv[c].message
        IN  /\ inv[c].tool \in DOMAIN FailedTo /\ r.net = "ok" /\ r.status >= 400 =>
                  /\ inv[c].obs = Obs("http_error", r.status)
                  /\ m.action = FailedTo[inv[c].tool]
                  /\ m.target = inv[c].arg /\ m.target # ""
                  /\ m.organization_name = req[c].organization_name
                  /\ m.status_code = r.status
                  /\ IF r.body \in DOMAIN ErrorFieldOf
                     THEN /\ m.label = "Detail" /\ m.detail = <<ErrorFieldOf[r.body].shown>>
                          /\ \/ ErrorFieldOf[r.body].first = "\"\""
                             \/ m.detail = <<ErrorFieldOf[r.body].first>>
                     ELSE /\ m.label = "Response"
                          /\ IsPrefixOf(m.detail, BodyText(r.body))
                          /\ BodyText(r.body) # <<>> => m.detail # <<>>
                          /\ TextLen(BodyText(r.body)) <= 200 => m.detail = BodyText(r.body)

\* the body lists message before description: the description is what is shown
C25_Witness ==
    \E c \in Calls :
        /\ inv[c].tool = "delete_asgardeo_application" /\ inv[c].api_response.status = 409
        /\ inv[c].api_response.body = "err_desc_msg"
        /\ inv[c].message.detail = <<"\"d\"">> /\ inv[c].message.status_code = 409

\* C26: the executor is total. For every input string _run returns a string
\* observation and lets no exception escape, including input that is valid JSON
\* but not an object and plans whose path_params or query_params are not
\* mappings.
C26_ExecutorTotal ==
    ex.pc = "done" => ex.raised = "" /\ ex.obs.kind # ""

\* C27: path substitution does not depend on the order of the path_params
\* entries and a substituted value is not substituted again: the final path is
\* the simultaneous replacement of each {key} of the original path by its value.
C27_SimultaneousSubstitution ==
    ex.request.sent /\ ex.input.path_params.shape = "mapping" =>
        ex.request.url =
            <<Lit(BaseUrl)>> \o ImageOfPath(ex.input.path, ex.input.path_params.items)

\* C28: a context tool returns the "Error obtaining authorization token"
\* observation only when get_asgardeo_access_token failed in that invocation;
\* a failure after a successful exchange, such as a 2xx answer of the API whose
\* body is not JSON, is not reported as a token error.
C28_TokenErrorOnlyFromExchange ==
    \A c \in Calls :
        inv[c].obs.kind = "token_error" =>
            /\ inv[c].posts = 1 /\ ~inv[c].outcome.returned
            /\ ~inv[c].api_request.sent

\* C29: a context tool invoked while the request context is not set, or
\* delete, create or search invoked with an empty argument, returns an error
\* string and makes neither a token exchange nor a downstream request;
\* delete_asgardeo_application sends at most one DELETE per invocation, and
\* only for a non-empty app_id under the tenant of the current call.
C29_NoRequestOnBadStart ==
    \A c \in Calls :
        /\ inv[c].obs.kind \in {"context_error", "invalid_argument"} =>
              /\ inv[c].posts = 0 /\ inv[c].token_request = NoRequestSent
              /\ inv[c].requests = 0 /\ ~inv[c].api_request.sent
        /\ inv[c].tool \in Tools \ {"list_asgardeo_applications"} /\ inv[c].arg = ""
              /\ pc[c] # "tool_ctx" =>
              /\ inv[c].obs.kind \in {"context_error", "invalid_argument"}
              /\ pc[c] \notin {"tool_token", "tool_api"}
        /\ probe[c].done /\ (probe[c].api_key.raised \/ probe[c].org_name.raised) =>
              \A t \in Tools : /\ probe[c].started[t].obs.kind = "context_error"
                               /\ ~probe[c].started[t].proceeds
        /\ inv[c].tool = "delete_asgardeo_application" =>
              /\ inv[c].requests <= 1
              /\ inv[c].api_request.sent =>
                    /\ inv[c].arg # "" /\ inv[c].requests = 1
                    /\ inv[c].api_request.method = "DELETE"
                    /\ inv[c].api_request.url =
                           <<BaseUrl, req[c].organization_name,
                             "api/server/v1/applications", inv[c].arg>>

\* both cases have happened: one call's tool was given an empty argument and
\* answered without an exchange, and a tool called outside a request found no
\* context; and a delete with a non-empty id has sent its request
C29_Witness ==
    \E c, d \in Calls :
        /\ pc[c] = "agent" /\ inv[c].tool = "delete_asgardeo_application"
        /\ inv[c].arg = "" /\ inv[c].obs.kind = "invalid_argument" /\ inv[c].posts = 0
        /\ probe[d].done /\ probe[d].api_key.raised
        /\ probe[d].started["delete_asgardeo_application"].obs.kind = "context_error"
        /\ inv[d].tool = "delete_asgardeo_application" /\ inv[d].arg # ""
        /\ inv[d].api_request.sent /\ inv[d].requests = 1

\* C30: an executor observation begins with "API Request Failed:" if and only
\* if the downstream request failed, by a non-2xx response or by no response:
\* a 2xx response never yields the prefix, and an error found before any
\* request is sent never carries it.
C30_PrefixIffRequestFailed ==
    ex.pc = "done" /\ ex.raised = "" =>
        LET r == ex.response
            answered == ex.request.sent /\ r.net = "ok"
            failed == \/ ex.request.sent /\ r.net = "fail"
                      \/ answered /\ ~(r.status >= 200 /\ r.status < 300)
        IN  /\ ex.obs.kind \in FailedPrefixKinds <=> failed
            /\ answered /\ r.status >= 200 /\ r.status < 300 =>
                  ex.obs.kind \notin FailedPrefixKinds
            /\ r.net \in {"none", "unsent"} => ex.obs.kind \notin FailedPrefixKinds

===========================================================================
